---- MODULE Spec2Model ----
(***************************************************************************)
(* Model of the Para wallet bridge (ParaWalletBridge) of                   *)
(* src/app/components/orderlyProvider/paraConnector.tsx: the derivation of *)
(* the wallet state from the SDK's account state, the provider handle it   *)
(* constructs, the snapshot behind that handle, setChain / disconnect /    *)
(* connect and the chainChanged emission, and of getNetworkId /            *)
(* setNetworkId of src/app/components/orderlyProvider/index.tsx.           *)
(*                                                                         *)
(* One step of the model is one run-to-completion task of the UI event     *)
(* loop: a handler together with the render it schedules (useMemo          *)
(* recomputation) and the passive effects of that render.  An async        *)
(* function is cut at the awaits that really suspend it.                   *)
(*                                                                         *)
(* Text (numeric strings) is a sequence of one-character strings, so that  *)
(* toString(radix) and parseInt(text, radix) are computed digit by digit.  *)
(* JavaScript's undefined/null/"" of an address field is the empty string  *)
(* "", an absent or zero chain id is 0, and NaN is the value NaN.          *)
(***************************************************************************)
EXTENDS Integers, Sequences, FiniteSets, TLC

\* ------------------------------------------------------------------------
\* Bounds of the model
\* ------------------------------------------------------------------------

\* Largest number of provider handles constructed in one mount.
MaxHandles == 2

\* ------------------------------------------------------------------------
\* Text and numbers: Number.prototype.toString(radix), parseInt(text, radix)
\* ------------------------------------------------------------------------

NaN == -1

Digits == <<"0", "1", "2", "3", "4", "5", "6", "7", "8", "9",
            "a", "b", "c", "d", "e", "f">>

UpperDigits == <<"0", "1", "2", "3", "4", "5", "6", "7", "8", "9",
                 "A", "B", "C", "D", "E", "F">>

\* n.toString(radix) for a non-negative integer n or NaN.
RECURSIVE ToStringRadix(_, _)
ToStringRadix(n, radix) ==
  IF n = NaN THEN <<"N", "a", "N">>
  ELSE IF n < radix THEN <<Digits[n + 1]>>
  ELSE ToStringRadix(n \div radix, radix) \o <<Digits[(n % radix) + 1]>>

\* Value of one character as a digit of the radix, NaN when it is none.
DigitValue(c, radix) ==
  IF \E i \in 1..radix : Digits[i] = c \/ UpperDigits[i] = c
  THEN (CHOOSE i \in 1..radix : Digits[i] = c \/ UpperDigits[i] = c) - 1
  ELSE NaN

\* Value of the longest prefix of s made of digits of the radix, read after
\* the digits already accumulated in acc (seen: at least one digit was read).
RECURSIVE ParseDigits(_, _, _, _)
ParseDigits(s, radix, acc, seen) ==
  IF s = <<>> \/ DigitValue(Head(s), radix) = NaN
  THEN (IF seen THEN acc ELSE NaN)
  ELSE ParseDigits(Tail(s), radix, acc * radix + DigitValue(Head(s), radix), TRUE)

\* parseInt(s, radix) for unsigned text without leading white space: with
\* radix 16 an optional 0x / 0X prefix is skipped.
ParseInt(s, radix) ==
  IF radix = 16 /\ Len(s) >= 2 /\ s[1] = "0" /\ s[2] \in {"x", "X"}
  THEN ParseDigits(SubSeq(s, 3, Len(s)), radix, 0, FALSE)
  ELSE ParseDigits(s, radix, 0, FALSE)

\* `0x${chainId.toString(16)}`
HexChainId(chainId) == <<"0", "x">> \o ToStringRadix(chainId, 16)

\* Array.prototype.includes on an array of numbers.
Includes(arr, x) == \E i \in 1..Len(arr) : arr[i] = x

\* ------------------------------------------------------------------------
\* Runtime configuration and the network's chains
\* ------------------------------------------------------------------------

Networks == {"mainnet", "testnet"}

\* Text of a decimal number, as it stands in the configuration.
Dec(n) == ToStringRadix(n, 10)

\* The runtime configuration: the comma-separated chain lists (already split
\* at the commas, <<>> for a list that is not configured) and
\* VITE_DEFAULT_CHAIN (<<>> when it is not configured or empty).
Configs ==
  { [mainnet |-> <<Dec(1), Dec(8453)>>,
     testnet |-> <<Dec(421614), Dec(97)>>,
     default |-> Dec(1)] }

\* availableChainIds: the list of the active network, each item parsed.
AvailableChainIds(cfg, net) ==
  LET items == IF net = "mainnet" THEN cfg.mainnet ELSE cfg.testnet
  IN  [i \in 1..Len(items) |-> ParseInt(items[i], 10)]

\* A default chain that is the configured default whatever is available.
DefaultChainIdConfigOnly(cfg, net) ==
  ParseInt(IF cfg.default = <<>> THEN Dec(1329) ELSE cfg.default, 10)

\* defaultChainId: the configured default when it is available, else the
\* first available chain (when truthy), else the configured default.
DefaultChainId(cfg, net) ==
  LET avail == AvailableChainIds(cfg, net)
      configDefault == ParseInt(IF cfg.default = <<>> THEN Dec(1329) ELSE cfg.default, 10)
  IN  IF Includes(avail, configDefault) THEN configDefault
      ELSE IF Len(avail) > 0 /\ avail[1] # 0 /\ avail[1] # NaN THEN avail[1]
      ELSE configDefault

DefaultRpcUrl == "https://ethereum-rpc.publicnode.com"

MainnetRpcUrls ==
  [c \in {1, 1329, 80094, 8453, 56} |->
     CASE c = 1     -> "https://ethereum-rpc.publicnode.com"
       [] c = 1329  -> "https://evm-rpc.sei-apis.com"
       [] c = 80094 -> "https://berachain.drpc.org"
       [] c = 8453  -> "https://mainnet.base.org"
       [] c = 56    -> "https://bsc-dataseed1.binance.org"]

TestnetRpcUrls ==
  [c \in {421614, 97, 10143, 11124, 901901901} |->
     CASE c = 421614    -> "https://sepolia-rollup.arbitrum.io/rpc"
       [] c = 97        -> "https://data-seed-prebsc-1-s1.binance.org:8545"
       [] c = 10143     -> "https://sepolia.base.org"
       [] c = 11124     -> "https://rpc.test.abs.xyz"
       [] c = 901901901 -> "https://rpc.test.abs.xyz"]

\* getRpcUrl: rpcUrls[chainId] || mainnetRpcUrls[chainId] || default.
GetRpcUrl(net, chainId) ==
  LET rpcUrls == IF net = "mainnet" THEN MainnetRpcUrls ELSE TestnetRpcUrls
  IN  IF chainId \in DOMAIN rpcUrls THEN rpcUrls[chainId]
      ELSE IF chainId \in DOMAIN MainnetRpcUrls THEN MainnetRpcUrls[chainId]
      ELSE DefaultRpcUrl

\* ------------------------------------------------------------------------
\* Values of the SDK's reactive state and of the adapter
\* ------------------------------------------------------------------------

\* A chain id of type number | string.
ChainNum(n) == [num |-> n, str |-> ""]
ChainStr(s) == [num |-> 0, str |-> s]
IsNumber(chainId) == chainId.str = ""

NoEvm == [address |-> "", chainId |-> 0]
NoSolana == [publicKey |-> ""]
NoEmbedded == [isConnected |-> FALSE, isGuestMode |-> FALSE,
               wallets |-> <<>>, address |-> ""]
NoWalletData == [present |-> FALSE, address |-> "", chainType |-> ""]

\* useAccount() with nothing connected.
NoAccount == [evm |-> NoEvm, solana |-> NoSolana, embedded |-> NoEmbedded,
              isConnected |-> FALSE]

\* walletState === null
NoWallet == [address |-> "", chainId |-> ChainNum(0), namespace |-> "",
             provider |-> 0]

NoSigner == [client |-> "none", rpcUrl |-> "", chainId |-> 0]

\* providerStateRef.current === null
NoSnapshot == [chainId |-> 0, rpcUrl |-> "", signer |-> NoSigner]

\* connectedChain === null
NoChain == [id |-> ChainNum(0), namespace |-> ""]

\* ------------------------------------------------------------------------
\* walletState: the derivation of the wallet from the SDK state
\* ------------------------------------------------------------------------

\* embedded.wallets.find(w => w.chainType === 'EVM' || w.type === 'EVM'),
\* with address "" when nothing is found.
FindEvmWallet(wallets) ==
  LET hits == {i \in 1..Len(wallets) :
                 wallets[i].chainType = "EVM" \/ wallets[i].type = "EVM"}
  IN  IF hits = {} THEN [found |-> FALSE, address |-> ""]
      ELSE [found |-> TRUE,
            address |-> wallets[CHOOSE i \in hits : \A j \in hits : i <= j].address]

\* Approach 1: the EVM entry of embedded.wallets.
Approach1(d, acc, sel) ==
  IF Len(acc.embedded.wallets) > 0 /\ FindEvmWallet(acc.embedded.wallets).address # ""
  THEN [address |-> FindEvmWallet(acc.embedded.wallets).address,
        namespace |-> "EVM", chainId |-> ChainNum(sel)]
  ELSE d

\* Approach 2 without its !address guard: the wallet query overrides the
\* wallets array.
Approach2Overwrites(d, wq, sel) ==
  IF wq.present /\ wq.address # ""
  THEN [address |-> wq.address,
        namespace |-> IF wq.chainType = "SOLANA" THEN "SOL" ELSE "EVM",
        chainId |-> ChainNum(sel)]
  ELSE d

\* Approach 2: walletQuery.data.
Approach2(d, wq, sel) ==
  IF d.address = "" /\ wq.present /\ wq.address # ""
  THEN [address |-> wq.address,
        namespace |-> IF wq.chainType = "SOLANA" THEN "SOL" ELSE "EVM",
        chainId |-> ChainNum(sel)]
  ELSE d

\* Approach 3: the direct address of the embedded account.
Approach3(d, acc, sel) ==
  IF d.address = "" /\ acc.embedded.address # ""
  THEN [address |-> acc.embedded.address, namespace |-> "EVM",
        chainId |-> ChainNum(sel)]
  ELSE d

\* hasEmbedded
HasEmbedded(acc) == acc.embedded.isConnected /\ ~acc.embedded.isGuestMode

\* The derivation with the embedded account tried before the external ones.
DeriveWalletEmbeddedFirst(acc, wq, sel) ==
  LET start == [address |-> "", namespace |-> "EVM", chainId |-> ChainNum(1)]
      emb == IF HasEmbedded(acc)
             THEN Approach3(Approach2(Approach1(start, acc, sel), wq, sel), acc, sel)
             ELSE start
  IN  IF emb.address # "" THEN emb
      ELSE IF acc.evm.address # ""
        THEN [address |-> acc.evm.address, namespace |-> "EVM",
              chainId |-> ChainNum(IF acc.evm.chainId # 0 THEN acc.evm.chainId ELSE 1)]
      ELSE IF acc.solana.publicKey # ""
        THEN [address |-> acc.solana.publicKey, namespace |-> "SOL",
              chainId |-> ChainStr("solana-mainnet")]
      ELSE start

\* The address, namespace and chain id the recomputation arrives at; the
\* address is "" where the code returns null.
DeriveWallet(acc, wq, sel) ==
  LET hasEvm == acc.evm.address # ""
      hasSolana == acc.solana.publicKey # ""
      start == [address |-> "", namespace |-> "EVM", chainId |-> ChainNum(1)]
  IN  IF ~hasEvm /\ ~hasSolana /\ ~HasEmbedded(acc) /\ ~wq.present THEN start
      ELSE IF hasEvm
        THEN [address |-> acc.evm.address, namespace |-> "EVM",
              chainId |-> ChainNum(IF acc.evm.chainId # 0 THEN acc.evm.chainId ELSE 1)]
      ELSE IF hasSolana
        THEN [address |-> acc.solana.publicKey, namespace |-> "SOL",
              chainId |-> ChainStr("solana-mainnet")]
      ELSE IF HasEmbedded(acc)
        THEN Approach3(Approach2(Approach1(start, acc, sel), wq, sel), acc, sel)
      ELSE start

\* The signer of the recomputation: a ParaEthersSigner over the client and
\* the chain's RPC provider, or null.
MakeSigner(client, acc, rpcUrl, chainId) ==
  IF client # "none" /\ acc.isConnected /\ Len(acc.embedded.wallets) > 0
  THEN [client |-> client, rpcUrl |-> rpcUrl, chainId |-> chainId]
  ELSE NoSigner

\* A snapshot that ignores the derived chain and always takes the default.
MakeSnapshotDefaultChain(cfg, net, client, acc, d) ==
  [chainId |-> DefaultChainId(cfg, net),
   rpcUrl |-> GetRpcUrl(net, DefaultChainId(cfg, net)),
   signer |-> MakeSigner(client, acc, GetRpcUrl(net, DefaultChainId(cfg, net)),
                         DefaultChainId(cfg, net))]

\* The snapshot a recomputation with a wallet stores in providerStateRef.
MakeSnapshot(cfg, net, client, acc, d) ==
  LET actualChainId == IF IsNumber(d.chainId) THEN d.chainId.num
                       ELSE DefaultChainId(cfg, net)
      rpcUrl == GetRpcUrl(net, actualChainId)
  IN  [chainId |-> actualChainId, rpcUrl |-> rpcUrl,
       signer |-> MakeSigner(client, acc, rpcUrl, actualChainId)]

\* The handle constructed when stableProviderRef is empty: the request
\* closure keeps the address of the recomputation that constructs it.
NewHandle(d) == [address |-> d.address]

\* stableProviderRef after a recomputation with a wallet: the handle is
\* constructed only when the reference is empty (0).
StableAfter(stable, hs) == IF stable = 0 THEN Len(hs) + 1 ELSE stable

\* A recomputation that constructs a handle every time.
HandlesAfterAlways(stable, hs, d) == Append(hs, NewHandle(d))

HandlesAfter(stable, hs, d) == IF stable = 0 THEN Append(hs, NewHandle(d)) ELSE hs

\* providerStateRef after a recomputation: replaced when there is a wallet,
\* left alone by both null returns.
SnapshotAfter(cfg, net, client, acc, d, snap) ==
  IF d.address = "" THEN snap ELSE MakeSnapshot(cfg, net, client, acc, d)

\* One evaluation of the walletState memo: the wallet returned and the two
\* references and the handles after it.
Recompute(cfg, net, client, acc, wq, sel, snap, stable, hs) ==
  LET d == DeriveWallet(acc, wq, sel)
  IN  IF d.address = ""
      THEN [wallet |-> NoWallet, snapshot |-> SnapshotAfter(cfg, net, client, acc, d, snap),
            stable |-> stable, handles |-> hs]
      ELSE [wallet |-> [address |-> d.address, chainId |-> d.chainId,
                        namespace |-> d.namespace,
                        provider |-> StableAfter(stable, hs)],
            snapshot |-> SnapshotAfter(cfg, net, client, acc, d, snap),
            stable |-> StableAfter(stable, hs),
            handles |-> HandlesAfter(stable, hs, d)]

\* A connectedChain memo that reports the selected chain for an external
\* wallet too.
ConnectedChainSelected(acc, sel) ==
  IF acc.evm.address # ""
    THEN [id |-> ChainNum(sel), namespace |-> "EVM"]
  ELSE IF acc.solana.publicKey # ""
    THEN [id |-> ChainStr("solana-mainnet"), namespace |-> "SOL"]
  ELSE IF acc.embedded.isConnected /\ Len(acc.embedded.wallets) > 0
          /\ FindEvmWallet(acc.embedded.wallets).found
    THEN [id |-> ChainNum(sel), namespace |-> "EVM"]
  ELSE NoChain

\* The connectedChain memo.
ConnectedChain(acc, sel) ==
  IF acc.evm.address # ""
    THEN [id |-> ChainNum(IF acc.evm.chainId # 0 THEN acc.evm.chainId ELSE 1),
          namespace |-> "EVM"]
  ELSE IF acc.solana.publicKey # ""
    THEN [id |-> ChainStr("solana-mainnet"), namespace |-> "SOL"]
  ELSE IF acc.embedded.isConnected /\ Len(acc.embedded.wallets) > 0
          /\ FindEvmWallet(acc.embedded.wallets).found
    THEN [id |-> ChainNum(sel), namespace |-> "EVM"]
  ELSE NoChain

\* The namespace memo ("" for null).
Namespace(acc) ==
  IF acc.evm.address # "" THEN "EVM"
  ELSE IF acc.solana.publicKey # "" THEN "SOL"
  ELSE IF acc.embedded.isConnected /\ Len(acc.embedded.wallets) > 0
          /\ FindEvmWallet(acc.embedded.wallets).found
    THEN "EVM"
  ELSE ""

\* ------------------------------------------------------------------------
\* Inputs of the model
\* ------------------------------------------------------------------------

EvmWallet(a) == [chainType |-> "EVM", type |-> "", address |-> a]
SolWallet(a) == [chainType |-> "SOLANA", type |-> "SOLANA", address |-> a]

Embedded(conn, guest, ws, a) ==
  [isConnected |-> conn, isGuestMode |-> guest, wallets |-> ws, address |-> a]

Sdk(evm, sol, emb, conn, wd) ==
  [account |-> [evm |-> evm, solana |-> sol, embedded |-> emb, isConnected |-> conn],
   walletData |-> wd]

WalletData(a, t) == [present |-> TRUE, address |-> a, chainType |-> t]

\* The states of the SDK (useAccount, useWallet) the adapter is driven with.
SdkInputs ==
  { \* nothing connected
    Sdk(NoEvm, NoSolana, NoEmbedded, FALSE, NoWalletData),
    \* an external EVM wallet without a chain id, no embedded wallets
    Sdk([address |-> "0xA", chainId |-> 0], NoSolana, NoEmbedded, TRUE, NoWalletData),
    \* an external EVM wallet next to embedded wallets
    Sdk([address |-> "0xA", chainId |-> 8453], NoSolana,
        Embedded(TRUE, FALSE, <<EvmWallet("0xB")>>, ""), TRUE, NoWalletData),
    \* an embedded account resolved from the wallets array
    Sdk(NoEvm, NoSolana, Embedded(TRUE, FALSE, <<SolWallet("SoL"), EvmWallet("0xB")>>, ""),
        TRUE, NoWalletData),
    \* an embedded account resolved from its direct address, no wallets
    Sdk(NoEvm, NoSolana, Embedded(TRUE, FALSE, <<>>, "0xB"), TRUE, NoWalletData),
    \* a guest session with wallet-query data: no wallet
    Sdk(NoEvm, NoSolana, Embedded(TRUE, TRUE, <<EvmWallet("0xB")>>, ""), TRUE,
        WalletData("0xB", "EVM")) }

\* An argument of setChain: a number or a text.
NumArg(n) == [isString |-> FALSE, num |-> n, text |-> <<>>]
StrArg(t) == [isString |-> TRUE, num |-> 0, text |-> t]
NoArg == [isString |-> FALSE, num |-> 0, text |-> <<>>]

\* The chain ids setChain is called with.
ChainArgs ==
  { NumArg(1), NumArg(8453), NumArg(97), NumArg(1329),
    StrArg(HexChainId(8453)), StrArg(<<"0", "X", "6", "6", "E", "E", "E">>),
    StrArg(Dec(8453)), StrArg(<<"z">>) }

Listeners == {"L1", "L2"}

EventNames == {"chainChanged", "accountsChanged"}

Methods == {"eth_chainId", "eth_accounts", "eth_requestAccounts"}

Clients == {"client", "clientNoLogout", "none"}

\* localStorage: the text stored under para_selected_chain_<networkId>,
\* <<>> when the key is absent.
InitialStorages == { [n \in Networks |-> <<>>] }

\* ------------------------------------------------------------------------
\* State
\* ------------------------------------------------------------------------

VARIABLES
  env,                \* the browser environment: storage flags, injected wallets
  config,             \* the runtime configuration
  networkId,          \* the networkId prop of the mount
  paraClient,         \* useClient(): "client", "clientNoLogout" or "none"
  storage,            \* localStorage, para_selected_chain_<networkId>
  account,            \* useAccount()
  walletQuery,        \* useWallet().data
  selectedChainId,    \* the Selected Chain Identifier
  prevChainIdRef,     \* prevChainIdRef.current
  eventListenersRef,  \* eventListenersRef.current: event name -> listeners
  providerStateRef,   \* providerStateRef.current, the snapshot
  stableProviderRef,  \* stableProviderRef.current: index in handles, 0 = null
  handles,            \* the provider handles constructed in this mount
  walletState,        \* the walletState memo
  connectedChain,     \* the connectedChain memo
  namespace,          \* the namespace memo
  settingChain,       \* the settingChain state
  connecting,         \* the connecting state
  logoutPending,      \* a disconnect() is suspended at await logout()
  received,           \* the last payload each listener was invoked with
  lastCall,           \* the last call made on the adapter and its outcome
  upstream,           \* the call the last step made to the SDK, the RPC
                      \* endpoint or localStorage, and how it ended
  invoked,            \* how often the last step invoked each listener
  pending,            \* the request() suspended at an await, if any
  selectedProvider,   \* OrderlyProvider: the selectedProvider state
  showProviderSelector, \* OrderlyProvider: the showProviderSelector state
  isAutoClicking,     \* OrderlyProvider: the isAutoClicking state
  autoClick,          \* OrderlyProvider: the timers of tryAutoClick
  lazyModules,        \* the state of the lazy import of each connector
  mountedConnector    \* the connector below the Suspense boundary

vars == <<env, config, networkId, paraClient, storage, account, walletQuery,
          selectedChainId, prevChainIdRef, eventListenersRef, providerStateRef,
          stableProviderRef, handles, walletState, connectedChain, namespace,
          settingChain, connecting, logoutPending, received, lastCall, upstream,
          invoked, pending, selectedProvider, showProviderSelector,
          isAutoClicking, autoClick, lazyModules, mountedConnector>>

\* The state of OrderlyProvider, the component above the connector.
shellVars == <<selectedProvider, showProviderSelector, isAutoClicking,
               autoClick, lazyModules, mountedConnector>>

Call(op, h, method, arg, ok, result) ==
  [op |-> op, handle |-> h, method |-> method, arg |-> arg, ok |-> ok,
   result |-> result]

Upstream(kind, target, ok, reply) ==
  [kind |-> kind, target |-> target, ok |-> ok, reply |-> reply]

NoUpstream == Upstream("none", "", TRUE, <<>>)

\* No listener was invoked.
NoInvocations == [l \in Listeners |-> 0]

\* No request is suspended at an await.
NoPending ==
  [active |-> FALSE, handle |-> 0, method |-> "", params |-> "absent",
   awaiting |-> "", target |-> "", calls |-> 0, signer |-> NoSigner,
   rpcUrl |-> "", chainId |-> 0, started |-> NoSnapshot,
   sent |-> [method |-> "", params |-> "absent"]]

\* ------------------------------------------------------------------------
\* OrderlyProvider: the registry of connectors and its renderer
\* ------------------------------------------------------------------------

\* The keys of PROVIDER_REGISTRY.
RegistryKeys == {"privy", "web3-onboard", "para"}

\* A property name that every object literal inherits from Object.prototype.
InheritedKeys == {"constructor"}

\* WalletProviderType is string: the ids of the registry, an id that is in no
\* registry, and an inherited property name.
ProviderIds == RegistryKeys \cup {"rainbowkit", "particle"} \cup InheritedKeys

\* PROVIDER_REGISTRY[id]: the entry, undefined, or the inherited property,
\* which is truthy and has no Component.
RegistryLookup(id) ==
  IF id \in RegistryKeys THEN [truthy |-> TRUE, Component |-> id]
  ELSE IF id \in InheritedKeys THEN [truthy |-> TRUE, Component |-> ""]
  ELSE [truthy |-> FALSE, Component |-> ""]

\* A renderer whose fallback is the first entry of the registry.
ProviderRendererFallbackFirst(id) ==
  LET providerConfig == RegistryLookup(id)
  IN  IF ~providerConfig.truthy
        THEN [throws |-> FALSE, Component |-> "privy", key |-> ""]
      ELSE IF providerConfig.Component = ""
        THEN [throws |-> TRUE, Component |-> "", key |-> id]
      ELSE [throws |-> FALSE, Component |-> providerConfig.Component, key |-> id]

\* ProviderRenderer: the element it returns, the fallback without a keyed
\* wrapper; an element whose type is undefined makes the render throw.
ProviderRenderer(id) ==
  LET providerConfig == RegistryLookup(id)
  IN  IF ~providerConfig.truthy
        THEN [throws |-> FALSE, Component |-> "web3-onboard", key |-> ""]
      ELSE IF providerConfig.Component = ""
        THEN [throws |-> TRUE, Component |-> "", key |-> id]
      ELSE [throws |-> FALSE, Component |-> providerConfig.Component, key |-> id]

Mounted(component, key) == [status |-> "mounted", Component |-> component, key |-> key]

\* The Suspense fallback is shown: the lazy component has not loaded.
Suspended == [status |-> "loading", Component |-> "", key |-> ""]

\* The render threw and no error boundary is declared in the module.
Crashed == [status |-> "crashed", Component |-> "", key |-> ""]

\* What is mounted below the Suspense boundary after a commit: the lazy
\* component suspends until its import has resolved.
MountedAfter(id, lazy) ==
  LET el == ProviderRenderer(id)
  IN  IF el.throws THEN Crashed
      ELSE IF lazy[el.Component] # "loaded" THEN Suspended
      ELSE Mounted(el.Component, el.key)

\* Rendering a lazy component starts its import.
LazyAfter(id, lazy) ==
  LET el == ProviderRenderer(id)
  IN  IF ~el.throws /\ lazy[el.Component] = "idle"
      THEN [lazy EXCEPT ![el.Component] = "loading"]
      ELSE lazy

\* The universal-wallet connector has been selected and is mounted.
\* tryAutoClick gives up at its 21st call, after 20 looks for the button.
maxAttempts == 20

\* No timer of tryAutoClick is pending. stage: "scheduled" while a timer of
\* tryAutoClick(attempts) is pending, "resetting" while the timer that
\* resets the flag after a click is pending; clicks counts the clicks.
NoAutoClick == [stage |-> "idle", attempts |-> 0, clicks |-> 0]

ParaSelected ==
  /\ selectedProvider = "para"
  /\ showProviderSelector = FALSE
  /\ isAutoClicking = FALSE
  /\ autoClick = NoAutoClick
  /\ lazyModules = [m \in RegistryKeys |->
                      IF m = "privy" THEN "idle" ELSE "loaded"]
  /\ mountedConnector = Mounted("para", "para")

\* An object a wallet extension may have injected into the page: absent, or
\* present with or without a request function and an isGateWallet flag.
Absent == [present |-> FALSE, request |-> FALSE, isGateWallet |-> FALSE]

Injected(request, flag) ==
  [present |-> TRUE, request |-> request, isGateWallet |-> flag]

\* window.gatewallet, window.gatewallet.ethereum, window.ethereum and
\* window.ethereum.providers of a page without wallet extensions.
NoInjection ==
  [gatewallet |-> Absent, nested |-> Absent, ethereum |-> Absent,
   providers |-> <<>>]

\* The environment in which getNetworkId yields the network net.
EnvOf(net) ==
  [hasWindow |-> TRUE, disableMainnet |-> FALSE, disableTestnet |-> FALSE,
   item |-> [present |-> TRUE, value |-> net], storageThrows |-> FALSE,
   injected |-> NoInjection]

\* getInitialChainId without its try/catch: a failing read yields no chain.
GetInitialChainIdNoCatch(cfg, net, store, readFails) ==
  IF readFails THEN NaN
  ELSE IF store[net] # <<>>
     /\ Includes(AvailableChainIds(cfg, net), ParseInt(store[net], 10))
  THEN ParseInt(store[net], 10)
  ELSE DefaultChainId(cfg, net)

\* getInitialChainId: the stored chain when it parses to an available chain,
\* else the default chain; a read that throws is caught.
GetInitialChainId(cfg, net, store, readFails) ==
  IF ~readFails /\ store[net] # <<>>
     /\ Includes(AvailableChainIds(cfg, net), ParseInt(store[net], 10))
  THEN ParseInt(store[net], 10)
  ELSE DefaultChainId(cfg, net)

\* The state after the mount: first render and its effects, nothing
\* connected yet.
Init ==
  /\ config \in Configs
  /\ networkId \in Networks
  /\ env = EnvOf(networkId)
  /\ paraClient \in Clients
  /\ storage \in InitialStorages
  /\ account = NoAccount
  /\ walletQuery = NoWalletData
  /\ selectedChainId = GetInitialChainId(config, networkId, storage, FALSE)
  /\ prevChainIdRef = selectedChainId
  /\ eventListenersRef = [e \in EventNames |-> {}]
  /\ providerStateRef = NoSnapshot
  /\ stableProviderRef = 0
  /\ handles = <<>>
  /\ walletState = NoWallet
  /\ connectedChain = NoChain
  /\ namespace = ""
  /\ settingChain = FALSE
  /\ connecting = FALSE
  /\ logoutPending = FALSE
  /\ received = [l \in Listeners |-> <<>>]
  /\ lastCall = Call("mount", 0, "", NoArg, TRUE, <<>>)
  /\ invoked = NoInvocations
  /\ pending = NoPending
  /\ ParaSelected
  /\ upstream = Upstream("getItem", networkId, TRUE, storage[networkId])

\* ------------------------------------------------------------------------
\* Render: the memos and the chainChanged effect
\* ------------------------------------------------------------------------

\* The render after the account, the wallet query or the selected chain has
\* changed: walletState, connectedChain and namespace are recomputed.
Render(acc, wq, sel) ==
  LET r == Recompute(config, networkId, paraClient, acc, wq, sel,
                     providerStateRef, stableProviderRef, handles)
  IN  /\ walletState' = r.wallet
      /\ providerStateRef' = r.snapshot
      /\ stableProviderRef' = r.stable
      /\ handles' = r.handles
      /\ connectedChain' = ConnectedChain(acc, sel)
      /\ namespace' = Namespace(acc)

\* listeners.forEach(listener => listener(payload)): every registered
\* listener is invoked, a throwing listener does not stop the others.
\* The listeners whose function throws when it is called.
ThrowingListeners == {"L2"}

\* A forEach body without try/catch: a listener's exception leaves it.
EscapesUncaught(l) == l \in ThrowingListeners

\* Whether an exception of listener(hexChainId) leaves the forEach body:
\* the body is a try block whose catch only logs.
Escapes(l) == FALSE

\* The listeners the forEach is sure to call: all of them, unless an
\* exception leaves the body and ends the iteration.
Reached(listeners) ==
  IF \E t \in listeners : Escapes(t)
  THEN {t \in listeners : Escapes(t)}
  ELSE listeners

Deliver(listeners, rec, payload) ==
  [l \in Listeners |-> IF l \in Reached(listeners) THEN payload ELSE rec[l]]

\* The chainChanged effect of a render with selected chain sel.
ReceivedAfterEffect(sel, prev, reg, rec) ==
  IF sel # prev THEN Deliver(reg["chainChanged"], rec, HexChainId(sel)) ELSE rec

\* An effect that invokes every listener the mount has ever seen.
InvocationsUnregistered(sel, prev, reg) ==
  IF sel # prev THEN [l \in Listeners |-> 1] ELSE NoInvocations

\* How often the chainChanged effect invokes each listener: forEach over
\* the Set of the event name.
Invocations(sel, prev, reg) ==
  IF sel # prev
  THEN [l \in Listeners |-> IF l \in Reached(reg["chainChanged"]) THEN 1 ELSE 0]
  ELSE NoInvocations

\* An effect that forgets to update prevChainIdRef.
PrevNotUpdated(sel, prev) == prev

PrevAfterEffect(sel, prev) == IF sel # prev THEN sel ELSE prev

\* ------------------------------------------------------------------------
\* Operations
\* ------------------------------------------------------------------------

\* The SDK publishes an account / wallet-query state; the adapter renders.
SdkUpdate(in) ==
  /\ account' = in.account
  /\ walletQuery' = in.walletData
  /\ Render(in.account, in.walletData, selectedChainId)
  /\ invoked' = NoInvocations
  /\ UNCHANGED pending
  /\ UNCHANGED shellVars
  /\ upstream' = NoUpstream
  /\ lastCall' = Call("sdkUpdate", 0, "", NoArg, TRUE, <<>>)
  /\ UNCHANGED <<env, config, networkId, paraClient, storage, selectedChainId,
                 prevChainIdRef, eventListenersRef, settingChain, connecting,
                 logoutPending, received>>

\* A setChain that reads a text argument as decimal.
RequestedChainIdDecimal(arg) ==
  IF arg.isString THEN ParseInt(arg.text, 10) ELSE arg.num

\* requestedChainId: a text is read as hexadecimal.
RequestedChainId(arg) ==
  IF arg.isString THEN ParseInt(arg.text, 16) ELSE arg.num

\* A write of the hexadecimal text of the chain.
StorageAfterSetHex(store, net, chainId, writeFails) ==
  IF writeFails THEN store ELSE [store EXCEPT ![net] = ToStringRadix(chainId, 16)]

\* localStorage.setItem inside try/catch: a failing write changes nothing.
StorageAfterSet(store, net, chainId, writeFails) ==
  IF writeFails THEN store ELSE [store EXCEPT ![net] = Dec(chainId)]

\* setChain without the availability check.
IsAvailableAlways(cfg, net, chainId) == TRUE

\* The availability check of setChain.
IsAvailable(cfg, net, chainId) == Includes(AvailableChainIds(cfg, net), chainId)

\* settingChain once setChain has returned (finally).
SettingChainAfter == FALSE

\* setChain(options), the render of the new selected chain and its effect.
SetChain(arg, writeFails) ==
  LET req == RequestedChainId(arg)
  IN  IF ~IsAvailable(config, networkId, req)
      THEN /\ lastCall' = Call("setChain", 0, "", arg, FALSE, <<"chain not available">>)
           /\ invoked' = NoInvocations
           /\ UNCHANGED pending
           /\ UNCHANGED shellVars
           /\ upstream' = NoUpstream
           /\ settingChain' = SettingChainAfter
           /\ UNCHANGED <<env, config, networkId, paraClient, storage, account,
                          walletQuery, selectedChainId, prevChainIdRef,
                          eventListenersRef, providerStateRef, stableProviderRef,
                          handles, walletState, connectedChain, namespace,
                          connecting, logoutPending, received>>
      ELSE /\ selectedChainId' = req
           /\ storage' = StorageAfterSet(storage, networkId, req, writeFails)
           /\ IF req # selectedChainId
              THEN Render(account, walletQuery, req)
              ELSE UNCHANGED <<walletState, providerStateRef, stableProviderRef,
                               handles, connectedChain, namespace>>
           /\ received' = ReceivedAfterEffect(req, prevChainIdRef, eventListenersRef, received)
           /\ invoked' = Invocations(req, prevChainIdRef, eventListenersRef)
           /\ prevChainIdRef' = PrevAfterEffect(req, prevChainIdRef)
           /\ settingChain' = SettingChainAfter
           /\ UNCHANGED pending
           /\ UNCHANGED shellVars
           /\ upstream' = Upstream("setItem", networkId, ~writeFails, Dec(req))
           /\ lastCall' = Call("setChain", 0, "", arg, TRUE, <<"success">>)
           /\ UNCHANGED <<env, config, networkId, paraClient, account, walletQuery,
                          eventListenersRef, connecting, logoutPending>>

\* A disconnect() that keeps the handle reference.
StableKeptOnDisconnect == stableProviderRef

\* The two references once disconnect() has passed the logout.
StableAfterDisconnect == 0

SnapshotAfterDisconnect == NoSnapshot

ClearRefs ==
  /\ stableProviderRef' = StableAfterDisconnect
  /\ providerStateRef' = SnapshotAfterDisconnect

\* disconnect() with a client that exposes logout: logout is invoked and
\* the call is suspended at the await.
DisconnectCall ==
  /\ paraClient = "client"
  /\ ~logoutPending
  /\ Len(handles) < MaxHandles
  /\ logoutPending' = TRUE
  /\ invoked' = NoInvocations
  /\ UNCHANGED pending
  /\ UNCHANGED shellVars
  /\ upstream' = Upstream("logout", paraClient, TRUE, <<>>)
  /\ lastCall' = Call("logout", 0, "", NoArg, TRUE, <<>>)
  /\ UNCHANGED <<env, config, networkId, paraClient, storage, account, walletQuery,
                 selectedChainId, prevChainIdRef, eventListenersRef,
                 providerStateRef, stableProviderRef, handles, walletState,
                 connectedChain, namespace, settingChain, connecting, received>>

\* logout() has resolved: disconnect() clears the references and returns [].
LogoutResolved ==
  /\ logoutPending
  /\ Len(handles) < MaxHandles
  /\ logoutPending' = FALSE
  /\ ClearRefs
  /\ invoked' = NoInvocations
  /\ UNCHANGED pending
  /\ UNCHANGED shellVars
  /\ upstream' = NoUpstream
  /\ lastCall' = Call("disconnect", 0, "", NoArg, TRUE, <<>>)
  /\ UNCHANGED <<env, config, networkId, paraClient, storage, account, walletQuery,
                 selectedChainId, prevChainIdRef, eventListenersRef, handles,
                 walletState, connectedChain, namespace, settingChain,
                 connecting, received>>

\* A catch block that clears the handle reference before it rethrows.
StableClearedOnReject == StableAfterDisconnect

\* stableProviderRef once the catch block of disconnect() has rethrown.
StableAfterLogoutRejected == stableProviderRef

\* logout() has rejected: disconnect() rethrows, the references stay.
LogoutRejected ==
  /\ logoutPending
  /\ logoutPending' = FALSE
  /\ stableProviderRef' = StableAfterLogoutRejected
  /\ invoked' = NoInvocations
  /\ UNCHANGED pending
  /\ UNCHANGED shellVars
  /\ upstream' = NoUpstream
  /\ lastCall' = Call("disconnect", 0, "", NoArg, FALSE, <<"logout failed">>)
  /\ UNCHANGED <<env, config, networkId, paraClient, storage, account, walletQuery,
                 selectedChainId, prevChainIdRef, eventListenersRef,
                 providerStateRef, handles, walletState,
                 connectedChain, namespace, settingChain, connecting, received>>

\* disconnect() without a client or without a logout function: nothing is
\* awaited, the references are cleared at once.
DisconnectNoLogout ==
  /\ paraClient # "client"
  /\ Len(handles) < MaxHandles
  /\ ClearRefs
  /\ invoked' = NoInvocations
  /\ UNCHANGED pending
  /\ UNCHANGED shellVars
  /\ upstream' = NoUpstream
  /\ lastCall' = Call("disconnect", 0, "", NoArg, TRUE, <<>>)
  /\ UNCHANGED <<env, config, networkId, paraClient, storage, account, walletQuery,
                 selectedChainId, prevChainIdRef, eventListenersRef, handles,
                 walletState, connectedChain, namespace, settingChain,
                 connecting, logoutPending, received>>

\* A connect() without its finally block: the flag stays set when openModal
\* throws.
ConnectingStuckOnThrow(modalThrows) == modalThrows

\* The connecting state once connect() has returned: setConnecting(true) and
\* the setConnecting(false) of the finally block fall into the same task.
ConnectingAfter(modalThrows) == FALSE

\* connect(): opens the modal and returns [], or rethrows openModal's error;
\* connecting is false again either way.
Connect(modalThrows) ==
  /\ connecting' = ConnectingAfter(modalThrows)
  /\ invoked' = NoInvocations
  /\ UNCHANGED pending
  /\ UNCHANGED shellVars
  /\ upstream' = Upstream("openModal", "", ~modalThrows, <<>>)
  /\ lastCall' = IF modalThrows
                 THEN Call("connect", 0, "", NoArg, FALSE, <<"openModal failed">>)
                 ELSE Call("connect", 0, "", NoArg, TRUE, <<>>)
  /\ UNCHANGED <<env, config, networkId, paraClient, storage, account, walletQuery,
                 selectedChainId, prevChainIdRef, eventListenersRef,
                 providerStateRef, stableProviderRef, handles, walletState,
                 connectedChain, namespace, settingChain, logoutPending, received>>

\* The outcome of request({method}) on handle h for the methods answered
\* without an await: the snapshot is read from providerStateRef, the address
\* is the one the handle's closure was constructed with.
RequestOutcome(h, method, snap, hs) ==
  IF snap = NoSnapshot
    THEN [ok |-> FALSE, result |-> <<"Provider state not initialized">>]
  ELSE IF snap.signer = NoSigner
    THEN [ok |-> FALSE, result |-> <<"Para signer not available">>]
  ELSE IF method \in {"eth_accounts", "eth_requestAccounts"}
    THEN [ok |-> TRUE, result |-> <<hs[h].address>>]
  ELSE [ok |-> TRUE, result |-> HexChainId(snap.chainId)]

\* A consumer calls request on a handle it has been given.
Request(h, method) ==
  /\ h \in 1..Len(handles)
  /\ invoked' = NoInvocations
  /\ UNCHANGED pending
  /\ UNCHANGED shellVars
  /\ upstream' = NoUpstream
  /\ lastCall' = Call("request", h, method, NoArg,
                      RequestOutcome(h, method, providerStateRef, handles).ok,
                      RequestOutcome(h, method, providerStateRef, handles).result)
  /\ UNCHANGED <<env, config, networkId, paraClient, storage, account, walletQuery,
                 selectedChainId, prevChainIdRef, eventListenersRef,
                 providerStateRef, stableProviderRef, handles, walletState,
                 connectedChain, namespace, settingChain, connecting,
                 logoutPending, received>>

\* ------------------------------------------------------------------------
\* request: the methods answered by the signer or by the RPC endpoint
\* ------------------------------------------------------------------------

SigningMethods ==
  {"personal_sign", "eth_sign", "eth_signTypedData", "eth_signTypedData_v4"}

SignerMethods == SigningMethods \cup {"eth_sendTransaction"}

\* Methods of the default branch of the switch.
ForwardedMethods == {"eth_blockNumber", "eth_call"}

\* signature.slice(-2)
LastTwo(sig) == IF Len(sig) <= 2 THEN sig ELSE SubSeq(sig, Len(sig) - 1, Len(sig))

\* signature.slice(0, -2)
AllButLastTwo(sig) == IF Len(sig) <= 2 THEN <<>> ELSE SubSeq(sig, 1, Len(sig) - 2)

\* text.padStart(2, '0')
PadStart2(text) ==
  IF Len(text) = 0 THEN <<"0", "0">>
  ELSE IF Len(text) = 1 THEN <<"0">> \o text
  ELSE text

\* A normalisation that only lifts the recovery values 0 and 1.
NormalizeVZeroOne(sig) ==
  LET v == ParseInt(LastTwo(sig), 16)
  IN  IF v \in {0, 1}
      THEN AllButLastTwo(sig) \o PadStart2(ToStringRadix(v + 27, 16))
      ELSE sig

\* The normalisation of the recovery value v after signMessage and
\* signTypedData: NaN < 27 is false.
NormalizeV(sig) ==
  LET v == ParseInt(LastTwo(sig), 16)
  IN  IF v # NaN /\ v < 27
      THEN AllButLastTwo(sig) \o PadStart2(ToStringRadix(v + 27, 16))
      ELSE sig

\* The call a method makes on the signer or on the JSON-RPC provider.
UpstreamCall(method) ==
  CASE method \in {"personal_sign", "eth_sign"} -> "signMessage"
    [] method \in {"eth_signTypedData", "eth_signTypedData_v4"} -> "signTypedData"
    [] method = "eth_sendTransaction" -> "sendTransaction"
    [] OTHER -> "send"

Reply(ok, value) == [ok |-> ok, value |-> value]

\* request without the signer guard: the signer is called although it is
\* null.
UpstreamOutcomeNoSignerGuard(method, paramsOk, reply, snap) ==
  IF snap = NoSnapshot
    THEN [ok |-> FALSE, result |-> <<"Provider state not initialized">>,
          upstream |-> NoUpstream]
  ELSE IF method \in SigningMethods /\ ~paramsOk
    THEN [ok |-> FALSE, result |-> <<"invalid params">>, upstream |-> NoUpstream]
  ELSE [ok |-> reply.ok,
        result |-> IF reply.ok /\ method \in SigningMethods
                   THEN NormalizeV(reply.value) ELSE reply.value,
        upstream |-> Upstream(UpstreamCall(method),
                              IF method \in SignerMethods THEN snap.signer.rpcUrl
                              ELSE snap.rpcUrl,
                              reply.ok, reply.value)]

\* The outcome of request({method, params}) for a method answered by the
\* signer or forwarded to the endpoint, when the upstream call ends with
\* reply: the guards, the evaluation of the parameters (ethers.getBytes,
\* JSON.parse), the upstream call and the normalisation of a signature.
\* What follows the await uses nothing but the snapshot read before it.
UpstreamOutcome(method, paramsOk, reply, snap) ==
  IF snap = NoSnapshot
    THEN [ok |-> FALSE, result |-> <<"Provider state not initialized">>,
          upstream |-> NoUpstream]
  ELSE IF snap.signer = NoSigner
    THEN [ok |-> FALSE, result |-> <<"Para signer not available">>,
          upstream |-> NoUpstream]
  ELSE IF method \in SigningMethods /\ ~paramsOk
    THEN [ok |-> FALSE, result |-> <<"invalid params">>, upstream |-> NoUpstream]
  ELSE [ok |-> reply.ok,
        result |-> IF reply.ok /\ method \in SigningMethods
                   THEN NormalizeV(reply.value) ELSE reply.value,
        upstream |-> Upstream(UpstreamCall(method),
                              IF method \in SignerMethods THEN snap.signer.rpcUrl
                              ELSE snap.rpcUrl,
                              reply.ok, reply.value)]

\* A consumer calls request with a signing, sending or forwarded method and
\* the request runs to its end; upstream is the call whose reply decides the
\* outcome. RequestStart and RequestReply follow a request await by await.
RequestUpstream(h, method, paramsOk, reply) ==
  /\ h \in 1..Len(handles)
  /\ invoked' = NoInvocations
  /\ UNCHANGED pending
  /\ UNCHANGED shellVars
  /\ upstream' = UpstreamOutcome(method, paramsOk, reply, providerStateRef).upstream
  /\ lastCall' = Call("request", h, method, NoArg,
                      UpstreamOutcome(method, paramsOk, reply, providerStateRef).ok,
                      UpstreamOutcome(method, paramsOk, reply, providerStateRef).result)
  /\ UNCHANGED <<env, config, networkId, paraClient, storage, account, walletQuery,
                 selectedChainId, prevChainIdRef, eventListenersRef,
                 providerStateRef, stableProviderRef, handles, walletState,
                 connectedChain, namespace, settingChain, connecting,
                 logoutPending, received>>

\* Set.add
ListenersAfterOn(listeners, l) == listeners \cup {l}

\* handle.on(eventName, listener)
On(h, e, l) ==
  /\ h \in 1..Len(handles)
  /\ eventListenersRef' =
       [eventListenersRef EXCEPT ![e] = ListenersAfterOn(@, l)]
  /\ invoked' = NoInvocations
  /\ UNCHANGED pending
  /\ UNCHANGED shellVars
  /\ upstream' = NoUpstream
  /\ lastCall' = Call("on", 0, e, NoArg, TRUE, <<l>>)
  /\ UNCHANGED <<env, config, networkId, paraClient, storage, account, walletQuery,
                 selectedChainId, prevChainIdRef, providerStateRef,
                 stableProviderRef, handles, walletState, connectedChain,
                 namespace, settingChain, connecting, logoutPending, received>>

\* A removeListener that leaves the Set as it is.
ListenersAfterRemoveKept(listeners, l) == listeners

\* Set.delete
ListenersAfterRemove(listeners, l) == listeners \ {l}

\* handle.removeListener(eventName, listener)
RemoveListener(h, e, l) ==
  /\ h \in 1..Len(handles)
  /\ eventListenersRef' =
       [eventListenersRef EXCEPT ![e] = ListenersAfterRemove(@, l)]
  /\ invoked' = NoInvocations
  /\ UNCHANGED pending
  /\ UNCHANGED shellVars
  /\ upstream' = NoUpstream
  /\ lastCall' = Call("removeListener", 0, e, NoArg, TRUE, <<l>>)
  /\ UNCHANGED <<env, config, networkId, paraClient, storage, account, walletQuery,
                 selectedChainId, prevChainIdRef, providerStateRef,
                 stableProviderRef, handles, walletState, connectedChain,
                 namespace, settingChain, connecting, logoutPending, received>>

\* The SDK states the listener specification is driven with.
EventSdkInputs ==
  { in \in SdkInputs :
      /\ in.account.evm = NoEvm
      /\ in.account.solana = NoSolana
      /\ ~in.account.embedded.isGuestMode
      /\ in.account.embedded.address = "" }

\* The adapter and its consumers' requests.
Next ==
  \/ \E in \in SdkInputs : SdkUpdate(in)
  \/ \E arg \in ChainArgs : SetChain(arg, FALSE)
  \/ DisconnectCall
  \/ LogoutResolved
  \/ LogoutRejected
  \/ DisconnectNoLogout
  \/ \E modalThrows \in BOOLEAN : Connect(modalThrows)
  \/ \E h \in 1..MaxHandles, m \in Methods : Request(h, m)

Spec == Init /\ [][Next]_vars

\* The registrations and the setChain arguments of the listener
\* specification.
Registrations ==
  {<<"chainChanged", "L1">>, <<"chainChanged", "L2">>, <<"accountsChanged", "L2">>}

EventChainArgs ==
  { NumArg(1), NumArg(8453), NumArg(97),
    StrArg(<<"0", "X", "6", "6", "E", "E", "E">>) }

InitEvents == Init /\ paraClient # "none"

\* The adapter and the listeners registered on its handles.
NextEvents ==
  \/ \E in \in EventSdkInputs : SdkUpdate(in)
  \/ \E arg \in EventChainArgs : SetChain(arg, FALSE)
  \/ DisconnectCall
  \/ LogoutResolved
  \/ LogoutRejected
  \/ DisconnectNoLogout
  \/ \E h \in 1..MaxHandles, r \in Registrations : On(h, r[1], r[2])
  \/ \E h \in 1..MaxHandles, r \in Registrations : RemoveListener(h, r[1], r[2])

SpecEvents == InitEvents /\ [][NextEvents]_vars

\* ------------------------------------------------------------------------
\* The persisted network selection (index.tsx)
\* ------------------------------------------------------------------------

\* getNetworkId(): the value returned, or the error of a throwing
\* localStorage.getItem.
GetNetworkId(e) ==
  IF ~e.hasWindow THEN [ok |-> TRUE, value |-> "mainnet"]
  ELSE IF e.disableMainnet /\ ~e.disableTestnet THEN [ok |-> TRUE, value |-> "testnet"]
  ELSE IF e.disableTestnet /\ ~e.disableMainnet THEN [ok |-> TRUE, value |-> "mainnet"]
  ELSE IF e.storageThrows THEN [ok |-> FALSE, value |-> "storage read failed"]
  ELSE IF e.item.present /\ e.item.value # "" THEN [ok |-> TRUE, value |-> e.item.value]
  ELSE [ok |-> TRUE, value |-> "mainnet"]

\* What localStorage holds under orderly_network_id.
NetworkItems ==
  { [present |-> FALSE, value |-> ""], [present |-> TRUE, value |-> ""],
    [present |-> TRUE, value |-> "mainnet"], [present |-> TRUE, value |-> "testnet"],
    [present |-> TRUE, value |-> "staging"] }

Envs ==
  [hasWindow : BOOLEAN, disableMainnet : BOOLEAN, disableTestnet : BOOLEAN,
   item : NetworkItems, storageThrows : BOOLEAN, injected : {NoInjection}]

\* OrderlyProvider renders: const networkId = getNetworkId().
ReadNetworkId ==
  /\ networkId' = IF GetNetworkId(env).ok THEN GetNetworkId(env).value ELSE networkId
  /\ invoked' = NoInvocations
  /\ UNCHANGED pending
  /\ UNCHANGED shellVars
  /\ upstream' = Upstream("getItem", "orderly_network_id", GetNetworkId(env).ok, <<>>)
  /\ lastCall' = Call("getNetworkId", 0, "", NoArg, GetNetworkId(env).ok,
                      <<GetNetworkId(env).value>>)
  /\ UNCHANGED <<env, config, paraClient, storage, account, walletQuery,
                 selectedChainId, prevChainIdRef, eventListenersRef,
                 providerStateRef, stableProviderRef, handles, walletState,
                 connectedChain, namespace, settingChain, connecting,
                 logoutPending, received>>

\* setNetworkId(networkId): the selection is written when there is a window;
\* a throwing write is not caught.
SetNetworkId(net) ==
  /\ env' = IF env.hasWindow /\ ~env.storageThrows
            THEN [env EXCEPT !.item = [present |-> TRUE, value |-> net]]
            ELSE env
  /\ invoked' = NoInvocations
  /\ UNCHANGED pending
  /\ UNCHANGED shellVars
  /\ upstream' = IF env.hasWindow
                 THEN Upstream("setItem", "orderly_network_id", ~env.storageThrows, <<>>)
                 ELSE NoUpstream
  /\ lastCall' = Call("setNetworkId", 0, "", NoArg,
                      ~(env.hasWindow /\ env.storageThrows), <<net>>)
  /\ UNCHANGED <<config, networkId, paraClient, storage, account, walletQuery,
                 selectedChainId, prevChainIdRef, eventListenersRef,
                 providerStateRef, stableProviderRef, handles, walletState,
                 connectedChain, namespace, settingChain, connecting,
                 logoutPending, received>>

\* The page before OrderlyProvider has rendered, in any environment.
InitNetwork ==
  /\ env \in Envs
  /\ config \in Configs
  /\ networkId = ""
  /\ paraClient = "none"
  /\ storage \in InitialStorages
  /\ account = NoAccount
  /\ walletQuery = NoWalletData
  /\ selectedChainId = 0
  /\ prevChainIdRef = 0
  /\ eventListenersRef = [e \in EventNames |-> {}]
  /\ providerStateRef = NoSnapshot
  /\ stableProviderRef = 0
  /\ handles = <<>>
  /\ walletState = NoWallet
  /\ connectedChain = NoChain
  /\ namespace = ""
  /\ settingChain = FALSE
  /\ connecting = FALSE
  /\ logoutPending = FALSE
  /\ received = [l \in Listeners |-> <<>>]
  /\ lastCall = Call("load", 0, "", NoArg, TRUE, <<>>)
  /\ invoked = NoInvocations
  /\ pending = NoPending
  /\ ParaSelected
  /\ upstream = NoUpstream

NextNetwork ==
  \/ ReadNetworkId
  \/ \E net \in Networks : SetNetworkId(net)

SpecNetwork == InitNetwork /\ [][NextNetwork]_vars

\* ------------------------------------------------------------------------
\* Mounts over configurations and stored chain selections
\* ------------------------------------------------------------------------

\* Configurations: the usual one; a default outside the lists; nothing
\* configured (an undefined list, an empty list text, no default); a list
\* with a trailing comma.
MountConfigs ==
  { [mainnet |-> <<Dec(1), Dec(8453)>>,
     testnet |-> <<Dec(421614), Dec(97)>>,
     default |-> Dec(1)],
    [mainnet |-> <<Dec(8453), Dec(1)>>,
     testnet |-> <<Dec(97)>>,
     default |-> Dec(1329)],
    [mainnet |-> <<>>,
     testnet |-> << <<>> >>,
     default |-> <<>>],
    [mainnet |-> <<Dec(1), <<>>>>,
     testnet |-> <<Dec(421614), Dec(97)>>,
     default |-> Dec(97)] }

\* What localStorage holds under the two chain keys when the page loads.
MountStorages ==
  { [n \in Networks |-> <<>>],
    [n \in Networks |-> IF n = "mainnet" THEN Dec(8453) ELSE Dec(97)],
    [n \in Networks |-> IF n = "mainnet" THEN Dec(97) ELSE <<"9", "7", "x">>],
    [n \in Networks |-> IF n = "mainnet" THEN <<"a", "b", "c">> ELSE Dec(1)] }

StorageChainArgs ==
  { NumArg(1), NumArg(8453), NumArg(97), StrArg(<<"z">>) }

StorageSdkInputs ==
  { in \in SdkInputs :
      /\ in.account.evm = NoEvm
      /\ Len(in.account.embedded.wallets) = 2 }

\* A page load: the bridge is mounted afresh on network net, the stored
\* chain is read (the read may throw), nothing is connected yet.
Mount(net, readFails) ==
  /\ networkId' = net
  /\ env' = EnvOf(net)
  /\ account' = NoAccount
  /\ walletQuery' = NoWalletData
  /\ selectedChainId' = GetInitialChainId(config, net, storage, readFails)
  /\ prevChainIdRef' = selectedChainId'
  /\ eventListenersRef' = [e \in EventNames |-> {}]
  /\ providerStateRef' = NoSnapshot
  /\ stableProviderRef' = 0
  /\ handles' = <<>>
  /\ walletState' = NoWallet
  /\ connectedChain' = NoChain
  /\ namespace' = ""
  /\ settingChain' = FALSE
  /\ connecting' = FALSE
  /\ logoutPending' = FALSE
  /\ received' = [l \in Listeners |-> <<>>]
  /\ invoked' = NoInvocations
  /\ UNCHANGED pending
  /\ UNCHANGED shellVars
  /\ upstream' = Upstream("getItem", net, ~readFails,
                          IF readFails THEN <<>> ELSE storage[net])
  /\ lastCall' = Call("mount", 0, "", NoArg, TRUE, <<>>)
  /\ UNCHANGED <<config, paraClient, storage>>

\* The state after the first page load under one of the configurations
\* cfgs.
InitStorageWith(cfgs) ==
  /\ config \in cfgs
  /\ networkId \in Networks
  /\ env = EnvOf(networkId)
  /\ paraClient = "client"
  /\ storage \in MountStorages
  /\ account = NoAccount
  /\ walletQuery = NoWalletData
  /\ \E readFails \in BOOLEAN :
       /\ selectedChainId = GetInitialChainId(config, networkId, storage, readFails)
       /\ invoked = NoInvocations
       /\ pending = NoPending
       /\ ParaSelected
       /\ upstream = Upstream("getItem", networkId, ~readFails,
                              IF readFails THEN <<>> ELSE storage[networkId])
  /\ prevChainIdRef = selectedChainId
  /\ eventListenersRef = [e \in EventNames |-> {}]
  /\ providerStateRef = NoSnapshot
  /\ stableProviderRef = 0
  /\ handles = <<>>
  /\ walletState = NoWallet
  /\ connectedChain = NoChain
  /\ namespace = ""
  /\ settingChain = FALSE
  /\ connecting = FALSE
  /\ logoutPending = FALSE
  /\ received = [l \in Listeners |-> <<>>]
  /\ lastCall = Call("mount", 0, "", NoArg, TRUE, <<>>)

InitStorage == InitStorageWith(MountConfigs)

NextStorage ==
  \/ \E net \in Networks, readFails \in BOOLEAN : Mount(net, readFails)
  \/ \E arg \in StorageChainArgs, writeFails \in BOOLEAN : SetChain(arg, writeFails)
  \/ \E in \in StorageSdkInputs : SdkUpdate(in)
  \/ \E h \in 1..MaxHandles : On(h, "chainChanged", "L1")

SpecStorage == InitStorage /\ [][NextStorage]_vars

\* ------------------------------------------------------------------------
\* The adapter and the requests answered upstream
\* ------------------------------------------------------------------------

Bytes == 0..255

\* Two lowercase hex digits of a byte.
HexByte(b) == <<Digits[(b \div 16) + 1], Digits[(b % 16) + 1]>>

\* Raw signatures of the signer: 0x, the bytes before v, then v.
RawSignatures ==
  { <<"0", "x", "a", "b">> \o HexByte(v) : v \in Bytes }
  \cup { <<"0", "x", "0", "0", "1", "a">> \o t :
           t \in {HexByte(0), HexByte(1), HexByte(26), HexByte(27),
                  <<"0", "A">>, <<"1", "B">>, <<"F", "f">>} }

\* The raw signatures of the specification of all requests.
SampleSignatures ==
  { <<"0", "x", "a", "b">> \o HexByte(v) : v \in {0, 1, 26, 27, 28} }

\* How the upstream call of a method can end.
Replies(method, raws) ==
  CASE method \in SigningMethods ->
         {Reply(TRUE, raw) : raw \in raws}
         \cup {Reply(FALSE, <<"signing failed">>)}
    [] method = "eth_sendTransaction" ->
         {Reply(TRUE, <<"0xhash">>), Reply(FALSE, <<"transaction failed">>)}
    [] OTHER -> {Reply(TRUE, <<"0x10">>), Reply(FALSE, <<"rpc failed">>)}

\* Malformed parameters are told apart for the methods that evaluate them.
ParamsChoices(method) == IF method \in SigningMethods THEN BOOLEAN ELSE {TRUE}

\* With malformed parameters the upstream call is never made, so that its
\* reply need not be varied.
ReplyChoices(method, paramsOk, raws) ==
  IF paramsOk THEN Replies(method, raws) ELSE {Reply(FALSE, <<"invalid params">>)}

RequestSdkInputs ==
  { in \in SdkInputs :
      /\ ~in.account.embedded.isGuestMode
      /\ in.account.embedded.address = "" }

RequestChainArgs == { NumArg(8453), NumArg(97) }

InitRequests == Init /\ paraClient = "client"

NextRequests ==
  \/ \E in \in RequestSdkInputs : SdkUpdate(in)
  \/ \E arg \in RequestChainArgs : SetChain(arg, FALSE)
  \/ DisconnectCall
  \/ LogoutResolved
  \/ LogoutRejected
  \/ \E h \in 1..MaxHandles, m \in Methods : Request(h, m)
  \/ \E h \in 1..MaxHandles, m \in SignerMethods \cup ForwardedMethods :
       \E p \in ParamsChoices(m) : \E r \in ReplyChoices(m, p, SampleSignatures) :
         RequestUpstream(h, m, p, r)

SpecRequests == InitRequests /\ [][NextRequests]_vars

\* The signing requests on every raw signature.
SignSdkInputs ==
  { in \in SdkInputs :
      in.account.evm = NoEvm /\ in.account.embedded.address = ""
      /\ ~in.account.embedded.isGuestMode }

InitSign == Init /\ paraClient = "client" /\ networkId = "mainnet"

NextSign ==
  \/ \E in \in SignSdkInputs : SdkUpdate(in)
  \/ \E h \in 1..MaxHandles, m \in SigningMethods :
       \E p \in ParamsChoices(m) : \E r \in ReplyChoices(m, p, RawSignatures) :
         RequestUpstream(h, m, p, r)

SpecSign == InitSign /\ [][NextSign]_vars

\* ------------------------------------------------------------------------
\* The first commit of a mount and the listeners of its consumers
\* ------------------------------------------------------------------------

\* A bridge that is about to render for the first time: the SDK may hold an
\* account already (its query client outlives the connector), the selected
\* chain has been restored from localStorage and prevChainIdRef holds the
\* default chain.
InitMount ==
  /\ config \in Configs
  /\ networkId \in Networks
  /\ env = EnvOf(networkId)
  /\ paraClient = "client"
  /\ storage \in MountStorages
  /\ \E in \in EventSdkInputs :
       account = in.account /\ walletQuery = in.walletData
  /\ selectedChainId = GetInitialChainId(config, networkId, storage, FALSE)
  /\ prevChainIdRef = DefaultChainId(config, networkId)
  /\ eventListenersRef = [e \in EventNames |-> {}]
  /\ providerStateRef = NoSnapshot
  /\ stableProviderRef = 0
  /\ handles = <<>>
  /\ walletState = NoWallet
  /\ connectedChain = NoChain
  /\ namespace = ""
  /\ settingChain = FALSE
  /\ connecting = FALSE
  /\ logoutPending = FALSE
  /\ received = [l \in Listeners |-> <<>>]
  /\ invoked = NoInvocations
  /\ pending = NoPending
  /\ ParaSelected
  /\ upstream = Upstream("getItem", networkId, TRUE, storage[networkId])
  /\ lastCall = Call("inputs", 0, "", NoArg, TRUE, <<>>)

\* The first commit: the render, then the effects of the consumers below the
\* bridge, which run before the effects of the bridge and register the
\* listeners regs on the handle the render has given them, then the
\* chainChanged effect.
MountCommit(regs) ==
  /\ lastCall.op = "inputs"
  /\ Render(account, walletQuery, selectedChainId)
  /\ (walletState' = NoWallet) => regs = {}
  /\ eventListenersRef' =
       [eventListenersRef EXCEPT !["chainChanged"] = @ \cup regs]
  /\ received' = ReceivedAfterEffect(selectedChainId, prevChainIdRef,
                                     eventListenersRef', received)
  /\ invoked' = Invocations(selectedChainId, prevChainIdRef, eventListenersRef')
  /\ prevChainIdRef' = PrevAfterEffect(selectedChainId, prevChainIdRef)
  /\ UNCHANGED pending
  /\ UNCHANGED shellVars
  /\ upstream' = NoUpstream
  /\ lastCall' = Call("render", 0, "", NoArg, TRUE, <<>>)
  /\ UNCHANGED <<env, config, networkId, paraClient, storage, account, walletQuery,
                 selectedChainId, settingChain, connecting, logoutPending>>

MountChainArgs == { NumArg(1), NumArg(8453), NumArg(97) }

NextMount ==
  \/ \E regs \in SUBSET Listeners : MountCommit(regs)
  \/ \E in \in EventSdkInputs : lastCall.op # "inputs" /\ SdkUpdate(in)
  \/ \E arg \in MountChainArgs : lastCall.op # "inputs" /\ SetChain(arg, FALSE)
  \/ \E h \in 1..MaxHandles, l \in Listeners : On(h, "chainChanged", l)
  \/ \E h \in 1..MaxHandles, l \in Listeners : RemoveListener(h, "chainChanged", l)

SpecMount == InitMount /\ [][NextMount]_vars

\* ------------------------------------------------------------------------
\* request, cut at its awaits
\* ------------------------------------------------------------------------

\* The methods followed through their awaits.
InflightMethods == {"eth_sendTransaction", "eth_call", "eth_blockNumber"}

\* request.params: absent or the caller's list.
ParamsOf(method) ==
  IF method = "eth_sendTransaction" THEN {"list"} ELSE {"absent", "list"}

\* The call a request awaits first: eth_call with parameters posts the
\* request to the RPC URL itself before it is handed to the provider.
FirstAwait(method, params) ==
  IF method = "eth_call" /\ params # "absent" THEN "fetch"
  ELSE UpstreamCall(method)

\* Calls on the signer; tx.wait() is a call on the response of the signer.
SignerCalls == {"signMessage", "signTypedData", "sendTransaction", "wait"}

\* What a call is made with: fetch posts request.method and request.params,
\* send gets request.method and request.params || [].
Message(call, method, params) ==
  CASE call = "fetch" -> [method |-> method, params |-> params]
    [] call = "send" ->
         [method |-> method,
          params |-> IF params = "absent" THEN "empty" ELSE params]
    [] OTHER -> [method |-> call, params |-> params]

\* A continuation that reads providerStateRef again after the await.
LocalsAfterAwaitReread(p, snap) ==
  [signer |-> snap.signer, rpcUrl |-> snap.rpcUrl, chainId |-> snap.chainId]

\* The signer, RPC URL and chain id a continuation works with: the
\* constants destructured before the first await.
LocalsAfterAwait(p, snap) ==
  [signer |-> p.signer, rpcUrl |-> p.rpcUrl, chainId |-> p.chainId]

\* How an awaited call can end.
AwaitReplies(call) ==
  CASE call = "sendTransaction" ->
         {Reply(TRUE, <<"0xsubmitted">>), Reply(FALSE, <<"transaction failed">>)}
    [] call = "wait" ->
         {Reply(TRUE, <<"0xhash">>), Reply(FALSE, <<"transaction reverted">>)}
    [] OTHER -> {Reply(TRUE, <<"0x10">>), Reply(FALSE, <<"rpc failed">>)}

AllAwaitReplies ==
  UNION {AwaitReplies(call) : call \in {"sendTransaction", "wait", "fetch", "send"}}

\* An eth_sendTransaction that returns the hash of the submitted transaction
\* without awaiting its confirmation.
AfterReplyNoWait(p, reply, snap) ==
  IF p.awaiting = "fetch"
    THEN [done |-> FALSE, ok |-> TRUE, result |-> <<>>,
          pending |-> [p EXCEPT !.awaiting = "send", !.calls = @ + 1,
                                !.target = LocalsAfterAwait(p, snap).rpcUrl,
                                !.sent = Message("send", p.method, p.params)]]
  ELSE [done |-> TRUE, ok |-> reply.ok, result |-> reply.value,
        pending |-> NoPending]

\* The continuation of a suspended request when the awaited call ends with
\* reply: sendTransaction is followed by tx.wait(), the direct fetch of
\* eth_call by send whether it failed or not (its catch only logs); every
\* other reply, and a failed sendTransaction, ends the request.
AfterReply(p, reply, snap) ==
  IF p.awaiting = "sendTransaction" /\ reply.ok
    THEN [done |-> FALSE, ok |-> TRUE, result |-> <<>>,
          pending |-> [p EXCEPT !.awaiting = "wait", !.calls = @ + 1,
                                !.sent = Message("wait", p.method, "absent")]]
  ELSE IF p.awaiting = "fetch"
    THEN [done |-> FALSE, ok |-> TRUE, result |-> <<>>,
          pending |-> [p EXCEPT !.awaiting = "send", !.calls = @ + 1,
                                !.target = LocalsAfterAwait(p, snap).rpcUrl,
                                !.sent = Message("send", p.method, p.params)]]
  ELSE [done |-> TRUE, ok |-> reply.ok, result |-> reply.value,
        pending |-> NoPending]

\* A consumer calls request: the snapshot is read, the guards are passed and
\* the request is suspended at its first await, or it is rejected at once.
RequestStart(h, method, params) ==
  /\ h \in 1..Len(handles)
  /\ ~pending.active
  /\ IF providerStateRef = NoSnapshot \/ providerStateRef.signer = NoSigner
     THEN /\ pending' = NoPending
          /\ lastCall' = Call("request", h, method, NoArg, FALSE,
                              UpstreamOutcome(method, TRUE, Reply(TRUE, <<>>),
                                              providerStateRef).result)
     ELSE /\ pending' =
               [active |-> TRUE, handle |-> h, method |-> method,
                params |-> params, awaiting |-> FirstAwait(method, params),
                target |-> IF FirstAwait(method, params) \in SignerCalls
                           THEN providerStateRef.signer.rpcUrl
                           ELSE providerStateRef.rpcUrl,
                calls |-> 1, signer |-> providerStateRef.signer,
                rpcUrl |-> providerStateRef.rpcUrl,
                chainId |-> providerStateRef.chainId,
                started |-> providerStateRef,
                sent |-> Message(FirstAwait(method, params), method, params)]
          /\ lastCall' = Call("requestStart", h, method, NoArg, TRUE, <<>>)
  /\ invoked' = NoInvocations
  /\ UNCHANGED shellVars
  /\ upstream' = NoUpstream
  /\ UNCHANGED <<env, config, networkId, paraClient, storage, account, walletQuery,
                 selectedChainId, prevChainIdRef, eventListenersRef,
                 providerStateRef, stableProviderRef, handles, walletState,
                 connectedChain, namespace, settingChain, connecting,
                 logoutPending, received>>

\* The call a suspended request awaits ends with reply; the request goes on
\* to its next await or ends.
RequestReply(reply) ==
  /\ pending.active
  /\ reply \in AwaitReplies(pending.awaiting)
  /\ pending' = AfterReply(pending, reply, providerStateRef).pending
  /\ lastCall' = IF AfterReply(pending, reply, providerStateRef).done
                 THEN Call("request", pending.handle, pending.method, NoArg,
                           AfterReply(pending, reply, providerStateRef).ok,
                           AfterReply(pending, reply, providerStateRef).result)
                 ELSE Call("requestResumed", pending.handle, pending.method,
                           NoArg, TRUE, <<>>)
  /\ invoked' = NoInvocations
  /\ UNCHANGED shellVars
  /\ upstream' = Upstream(pending.awaiting, pending.target, reply.ok, reply.value)
  /\ UNCHANGED <<env, config, networkId, paraClient, storage, account, walletQuery,
                 selectedChainId, prevChainIdRef, eventListenersRef,
                 providerStateRef, stableProviderRef, handles, walletState,
                 connectedChain, namespace, settingChain, connecting,
                 logoutPending, received>>

InitInflight == Init /\ paraClient = "client"

NextInflight ==
  \/ \E in \in RequestSdkInputs : SdkUpdate(in)
  \/ \E arg \in RequestChainArgs : SetChain(arg, FALSE)
  \/ DisconnectCall
  \/ LogoutResolved
  \/ \E h \in 1..MaxHandles, method \in InflightMethods :
       \E params \in ParamsOf(method) : RequestStart(h, method, params)
  \/ \E reply \in AllAwaitReplies : RequestReply(reply)

SpecInflight == InitInflight /\ [][NextInflight]_vars

\* ------------------------------------------------------------------------
\* OrderlyProvider: selecting a connector
\* ------------------------------------------------------------------------

\* The state and refs of the adapter.
adapterVars ==
  <<env, config, networkId, paraClient, storage, account, walletQuery,
    selectedChainId, prevChainIdRef, eventListenersRef, providerStateRef,
    stableProviderRef, handles, walletState, connectedChain, namespace,
    settingChain, connecting, logoutPending, received, upstream, invoked,
    pending>>

\* handleClick: a click on a connect button opens the provider selector,
\* unless it is the automatic click.
ConnectClick ==
  /\ mountedConnector.status # "crashed"
  /\ ~isAutoClicking
  /\ showProviderSelector' = TRUE
  /\ lastCall' = Call("connectClick", 0, "", NoArg, TRUE, <<>>)
  /\ UNCHANGED <<selectedProvider, isAutoClicking, autoClick, lazyModules,
                 mountedConnector>>
  /\ UNCHANGED adapterVars

\* onClose of the provider selector.
CloseSelector ==
  /\ mountedConnector.status # "crashed"
  /\ showProviderSelector
  /\ showProviderSelector' = FALSE
  /\ lastCall' = Call("closeSelector", 0, "", NoArg, TRUE, <<>>)
  /\ UNCHANGED <<selectedProvider, isAutoClicking, autoClick, lazyModules,
                 mountedConnector>>
  /\ UNCHANGED adapterVars

\* handleProviderSelect(type), from an option of the open selector, and the
\* render that follows.
HandleProviderSelect(type) ==
  /\ mountedConnector.status # "crashed"
  /\ showProviderSelector
  /\ selectedProvider' = type
  /\ showProviderSelector' = FALSE
  /\ isAutoClicking' = TRUE
  /\ autoClick' = [stage |-> "scheduled", attempts |-> 0, clicks |-> 0]
  /\ lazyModules' = LazyAfter(type, lazyModules)
  /\ mountedConnector' = MountedAfter(type, lazyModules)
  /\ lastCall' = Call("select", 0, type, NoArg, TRUE, <<>>)
  /\ UNCHANGED adapterVars

\* A tryAutoClick that gives up without resetting the flag.
TryAutoClickGivesUpSilently(ac, found, flag) ==
  IF ac.attempts >= maxAttempts
    THEN [autoClick |-> [ac EXCEPT !.stage = "idle"], isAutoClicking |-> flag]
  ELSE IF found
    THEN [autoClick |-> [ac EXCEPT !.stage = "resetting", !.clicks = @ + 1],
          isAutoClicking |-> flag]
  ELSE [autoClick |-> [ac EXCEPT !.attempts = @ + 1], isAutoClicking |-> flag]

\* tryAutoClick(attempts): it gives up and resets the flag once attempts
\* has reached maxAttempts; else it looks for the connect button, clicks
\* it and starts the timer that resets the flag when found, and starts the
\* timer of tryAutoClick(attempts + 1) when not.
TryAutoClickResult(ac, found, flag) ==
  IF ac.attempts >= maxAttempts
    THEN [autoClick |-> [ac EXCEPT !.stage = "idle"], isAutoClicking |-> FALSE]
  ELSE IF found
    THEN [autoClick |-> [ac EXCEPT !.stage = "resetting", !.clicks = @ + 1],
          isAutoClicking |-> flag]
  ELSE [autoClick |-> [ac EXCEPT !.attempts = @ + 1], isAutoClicking |-> flag]

\* A timer of tryAutoClick fires. The button is found only while a
\* connector is mounted; a state update of a tree that a render error has
\* unmounted is dropped.
TryAutoClick(found) ==
  /\ autoClick.stage = "scheduled"
  /\ found => mountedConnector.status = "mounted"
  /\ autoClick' = TryAutoClickResult(autoClick, found, isAutoClicking).autoClick
  /\ isAutoClicking' =
       IF mountedConnector.status = "crashed" THEN isAutoClicking
       ELSE TryAutoClickResult(autoClick, found, isAutoClicking).isAutoClicking
  /\ lastCall' = Call("tryAutoClick", 0, "", NoArg, found, <<>>)
  /\ UNCHANGED <<selectedProvider, showProviderSelector, lazyModules,
                 mountedConnector>>
  /\ UNCHANGED adapterVars

\* The timer started after the click fires: setIsAutoClicking(false).
AutoClickReset ==
  /\ autoClick.stage = "resetting"
  /\ autoClick' = [autoClick EXCEPT !.stage = "idle"]
  /\ isAutoClicking' =
       IF mountedConnector.status = "crashed" THEN isAutoClicking ELSE FALSE
  /\ lastCall' = Call("autoClickReset", 0, "", NoArg, TRUE, <<>>)
  /\ UNCHANGED <<selectedProvider, showProviderSelector, lazyModules,
                 mountedConnector>>
  /\ UNCHANGED adapterVars

\* The import of a lazy connector resolves; the suspended boundary retries.
ModuleLoaded(m) ==
  /\ mountedConnector.status # "crashed"
  /\ lazyModules[m] = "loading"
  /\ lazyModules' = [lazyModules EXCEPT ![m] = "loaded"]
  /\ mountedConnector' = MountedAfter(selectedProvider, lazyModules')
  /\ lastCall' = Call("moduleLoaded", 0, m, NoArg, TRUE, <<>>)
  /\ UNCHANGED <<selectedProvider, showProviderSelector, isAutoClicking, autoClick>>
  /\ UNCHANGED adapterVars

\* The first render of OrderlyProvider; the adapter is not mounted.
InitProvider ==
  /\ config \in Configs
  /\ networkId \in Networks
  /\ env = EnvOf(networkId)
  /\ paraClient = "client"
  /\ storage = [n \in Networks |-> <<>>]
  /\ account = NoAccount
  /\ walletQuery = NoWalletData
  /\ selectedChainId = GetInitialChainId(config, networkId, storage, FALSE)
  /\ prevChainIdRef = selectedChainId
  /\ eventListenersRef = [e \in EventNames |-> {}]
  /\ providerStateRef = NoSnapshot
  /\ stableProviderRef = 0
  /\ handles = <<>>
  /\ walletState = NoWallet
  /\ connectedChain = NoChain
  /\ namespace = ""
  /\ settingChain = FALSE
  /\ connecting = FALSE
  /\ logoutPending = FALSE
  /\ received = [l \in Listeners |-> <<>>]
  /\ invoked = NoInvocations
  /\ pending = NoPending
  /\ upstream = NoUpstream
  /\ lastCall = Call("mount", 0, "", NoArg, TRUE, <<>>)
  /\ selectedProvider = "web3-onboard"
  /\ showProviderSelector = FALSE
  /\ isAutoClicking = FALSE
  /\ autoClick = NoAutoClick
  /\ lazyModules = LazyAfter("web3-onboard", [m \in RegistryKeys |-> "idle"])
  /\ mountedConnector = MountedAfter("web3-onboard", [m \in RegistryKeys |-> "idle"])

NextProvider ==
  \/ ConnectClick
  \/ CloseSelector
  \/ \E type \in ProviderIds : HandleProviderSelect(type)
  \/ \E found \in BOOLEAN : TryAutoClick(found)
  \/ AutoClickReset
  \/ \E m \in RegistryKeys : ModuleLoaded(m)

SpecProvider == InitProvider /\ [][NextProvider]_vars

\* The timers of tryAutoClick are setTimeout timers: a pending one fires.
SpecProviderFair ==
  /\ SpecProvider
  /\ WF_vars(\E found \in BOOLEAN : TryAutoClick(found))
  /\ WF_vars(AutoClickReset)

\* ------------------------------------------------------------------------
\* The adapter under setChain and connect
\* ------------------------------------------------------------------------

InitCalls == Init /\ paraClient = "client"

NextCalls ==
  \/ \E in \in SdkInputs : SdkUpdate(in)
  \/ \E arg \in ChainArgs, writeFails \in BOOLEAN : SetChain(arg, writeFails)
  \/ \E modalThrows \in BOOLEAN : Connect(modalThrows)

SpecCalls == InitCalls /\ [][NextCalls]_vars

\* ------------------------------------------------------------------------
\* The derivation on all combinations of SDK inputs
\* ------------------------------------------------------------------------

AllEvm == { NoEvm, [address |-> "0xA", chainId |-> 0],
            [address |-> "0xA", chainId |-> 8453] }

AllSolana == { NoSolana, [publicKey |-> "SoL"] }

AllWalletLists ==
  { <<>>, <<EvmWallet("0xB")>>, <<SolWallet("SoL")>>,
    <<SolWallet("SoL"), EvmWallet("0xB")>>,
    <<EvmWallet(""), [chainType |-> "", type |-> "EVM", address |-> "0xC"]>> }

AllEmbedded ==
  { Embedded(conn, guest, ws, a) :
      conn \in BOOLEAN, guest \in BOOLEAN, ws \in AllWalletLists, a \in {"", "0xE"} }

AllWalletData ==
  { NoWalletData, WalletData("0xW", "EVM"), WalletData("SoW", "SOLANA"),
    WalletData("", "EVM") }

AllAccounts ==
  { [evm |-> evm, solana |-> sol, embedded |-> emb, isConnected |-> conn] :
      evm \in AllEvm, sol \in AllSolana, emb \in AllEmbedded, conn \in BOOLEAN }

\* A mount whose first render has not run yet, on any combination of SDK
\* inputs and any available selected chain.
InitDerive ==
  /\ config \in Configs
  /\ networkId \in Networks
  /\ env = EnvOf(networkId)
  /\ paraClient = "client"
  /\ account \in AllAccounts
  /\ walletQuery \in AllWalletData
  /\ selectedChainId \in {AvailableChainIds(config, networkId)[i] :
                            i \in 1..Len(AvailableChainIds(config, networkId))}
  /\ storage = [n \in Networks |-> IF n = networkId THEN Dec(selectedChainId) ELSE <<>>]
  /\ prevChainIdRef = DefaultChainId(config, networkId)
  /\ eventListenersRef = [e \in EventNames |-> {}]
  /\ providerStateRef = NoSnapshot
  /\ stableProviderRef = 0
  /\ handles = <<>>
  /\ walletState = NoWallet
  /\ connectedChain = NoChain
  /\ namespace = ""
  /\ settingChain = FALSE
  /\ connecting = FALSE
  /\ logoutPending = FALSE
  /\ received = [l \in Listeners |-> <<>>]
  /\ lastCall = Call("inputs", 0, "", NoArg, TRUE, <<>>)
  /\ invoked = NoInvocations
  /\ pending = NoPending
  /\ ParaSelected
  /\ upstream = NoUpstream

\* The first render of the mount and its chainChanged effect.
FirstRender ==
  /\ lastCall.op = "inputs"
  /\ Render(account, walletQuery, selectedChainId)
  /\ received' = ReceivedAfterEffect(selectedChainId, prevChainIdRef,
                                     eventListenersRef, received)
  /\ prevChainIdRef' = PrevAfterEffect(selectedChainId, prevChainIdRef)
  /\ invoked' = Invocations(selectedChainId, prevChainIdRef, eventListenersRef)
  /\ UNCHANGED pending
  /\ UNCHANGED shellVars
  /\ upstream' = NoUpstream
  /\ lastCall' = Call("render", 0, "", NoArg, TRUE, <<>>)
  /\ UNCHANGED <<env, config, networkId, paraClient, storage, account, walletQuery,
                 selectedChainId, eventListenersRef, settingChain, connecting,
                 logoutPending>>

NextDerive == FirstRender

SpecDerive == InitDerive /\ [][NextDerive]_vars

\* ------------------------------------------------------------------------
\* C9, C10: the derivation
\* ------------------------------------------------------------------------

\* The first-match-wins reference of the derived address ("" for null).
ReferenceAddress(acc, wq) ==
  CASE acc.evm.address # "" -> acc.evm.address
    [] acc.evm.address = "" /\ acc.solana.publicKey # "" -> acc.solana.publicKey
    [] OTHER ->
        IF ~(acc.embedded.isConnected /\ ~acc.embedded.isGuestMode) THEN ""
        ELSE LET evmEntries == SelectSeq(acc.embedded.wallets,
                                 LAMBDA w : w.chainType = "EVM" \/ w.type = "EVM")
             IN  CASE evmEntries # <<>> /\ evmEntries[1].address # "" -> evmEntries[1].address
                   [] OTHER -> IF wq.present /\ wq.address # "" THEN wq.address
                               ELSE acc.embedded.address

\* C9: for every combination of SDK inputs the derived wallet state has the
\* address of the first-match-wins reference (external EVM, external Solana,
\* then for a connected non-guest embedded account the EVM entry of the
\* wallets array, the wallet-query address, the direct address), and it is
\* null exactly when the reference resolves nothing.
C9_FirstMatchWins ==
  lastCall.op = "render" =>
    /\ walletState.address = ReferenceAddress(account, walletQuery)
    /\ (walletState = NoWallet) = (ReferenceAddress(account, walletQuery) = "")
    /\ (account.evm = NoEvm /\ account.solana = NoSolana
        /\ ~account.embedded.isConnected) => walletState = NoWallet

\* The wallet-query address is used although the embedded account has a
\* wallets array and a direct address.
C9_Witness ==
  /\ lastCall.op = "render"
  /\ walletState.address = "0xW"
  /\ account.embedded.address = "0xE"
  /\ Len(account.embedded.wallets) = 2

\* C10: with an external EVM account the wallet's address is that account's
\* address, the wallet's, the context's and the connected chain's namespace
\* are EVM and the wallet's chain id is the external chain id (1 if absent),
\* whatever the embedded account, the wallet query and the selected chain.
C10_ExternalEvmPriority ==
  (lastCall.op = "render" /\ account.evm.address # "") =>
    /\ walletState.address = account.evm.address
    /\ walletState.namespace = "EVM"
    /\ namespace = "EVM"
    /\ connectedChain.namespace = "EVM"
    /\ walletState.chainId =
         ChainNum(IF account.evm.chainId = 0 THEN 1 ELSE account.evm.chainId)
    /\ connectedChain.id = walletState.chainId

\* An external EVM account without a chain id next to a connected embedded
\* account with its own wallets, on a selected chain other than 1.
C10_Witness ==
  /\ lastCall.op = "render"
  /\ account.evm = [address |-> "0xA", chainId |-> 0]
  /\ account.embedded.isConnected /\ ~account.embedded.isGuestMode
  /\ account.embedded.wallets = <<EvmWallet("0xB")>>
  /\ walletQuery.present
  /\ selectedChainId = 8453
  /\ walletState.chainId = ChainNum(1)

\* ------------------------------------------------------------------------
\* C1 .. C8: chain selection, the handle and its snapshot
\* ------------------------------------------------------------------------

\* The chain ids of the active network's configured set.
AvailableSet ==
  {AvailableChainIds(config, networkId)[i] :
     i \in 1..Len(AvailableChainIds(config, networkId))}

\* The wallet exposed by the adapter comes from the embedded account.
EmbeddedDerived ==
  /\ walletState # NoWallet
  /\ account.evm.address = ""
  /\ account.solana.publicKey = ""

IsChainIdRequest == lastCall.op = "request" /\ lastCall.method = "eth_chainId"

IsAccountsRequest ==
  lastCall.op = "request" /\ lastCall.method \in {"eth_accounts", "eth_requestAccounts"}

\* setChain of an available chain succeeds and selects it.
SetChainSucceeds ==
  (lastCall.op = "setChain" /\ RequestedChainId(lastCall.arg) \in AvailableSet) =>
    /\ lastCall.ok
    /\ selectedChainId = RequestedChainId(lastCall.arg)

C2_RejectsUnavailable ==
  [][(lastCall'.op = "setChain" /\ RequestedChainId(lastCall'.arg) \notin AvailableSet)
     => (/\ ~lastCall'.ok
         /\ UNCHANGED <<selectedChainId, storage, providerStateRef, stableProviderRef,
                        handles, walletState, received, prevChainIdRef>>
         /\ settingChain' = FALSE)]_vars

\* A text argument outside the set has been rejected while a wallet was
\* exposed and a listener that never received a payload was registered.
C2_Witness ==
  /\ lastCall.op = "setChain"
  /\ lastCall.arg.isString
  /\ ~lastCall.ok
  /\ walletState # NoWallet
  /\ \E l \in eventListenersRef["chainChanged"] : received[l] = <<>>

\* The chain id the latest recomputation puts into the snapshot.
LatestChainId ==
  MakeSnapshot(config, networkId, paraClient, account,
               DeriveWallet(account, walletQuery, selectedChainId)).chainId

\* C3 as stated: without a disconnect the handle reference never moves from
\* one handle to another, every wallet returned carries that handle, and an
\* eth_chainId request on it returns the chain of the latest recomputation.
C3_StableHandleLatestChain ==
  /\ [][(stableProviderRef # 0 /\ stableProviderRef' # 0)
        => stableProviderRef' = stableProviderRef]_vars
  /\ []((walletState # NoWallet /\ stableProviderRef # 0)
        => walletState.provider = stableProviderRef)
  /\ []((/\ IsChainIdRequest
         /\ walletState # NoWallet
         /\ providerStateRef # NoSnapshot
         /\ lastCall.handle = walletState.provider)
        => (lastCall.ok /\ lastCall.result = HexChainId(LatestChainId)))

\* C4 as stated: at most one handle is ever constructed in a mount.
C4_AtMostOnePerMount == Len(handles) <= 1

\* C4 (amended): a handle is constructed only while the handle reference is
\* empty, one at a time, and the reference is emptied only by a disconnect()
\* that completes: at most one handle per mount until a disconnect completes
\* and at most one more after each completed disconnect.
C4_OnePerConnection ==
  [][/\ (Len(handles') # Len(handles))
          => (/\ stableProviderRef = 0
              /\ handles' = Append(handles, handles'[Len(handles')])
              /\ stableProviderRef' = Len(handles'))
     /\ (stableProviderRef # 0 /\ stableProviderRef' # stableProviderRef)
          => (/\ lastCall'.op = "disconnect" /\ lastCall'.ok
              /\ stableProviderRef' = 0)]_vars

\* A second handle has been constructed by a recomputation.
C4_Witness ==
  /\ Len(handles) = 2
  /\ stableProviderRef = 2
  /\ lastCall.op = "sdkUpdate"

\* C5 as stated: after a recomputation the snapshot is the one derived from
\* the inputs of that recomputation, and it holds no signer when the
\* recomputation found no wallet.
C5_SnapshotReflectsLatest ==
  lastCall.op = "sdkUpdate" =>
    IF walletState = NoWallet
    THEN providerStateRef.signer = NoSigner
    ELSE providerStateRef =
           MakeSnapshot(config, networkId, paraClient, account,
                        DeriveWallet(account, walletQuery, selectedChainId))

\* C6 as stated: an eth_accounts / eth_requestAccounts request served on the
\* wallet's handle returns the one address of the current wallet state.
C6_CurrentAddress ==
  (/\ IsAccountsRequest
   /\ lastCall.ok
   /\ walletState # NoWallet
   /\ lastCall.handle = walletState.provider)
  => lastCall.result = <<walletState.address>>

\* C7: whenever the selected chain changes, every listener registered for
\* chainChanged is invoked with the 0x hex text of the new chain and nobody
\* else is; nothing is delivered while the selected chain stays, so the last
\* payload of a listener registered at the last change is the current chain.
C7_ChainChangedDelivered ==
  [][/\ (selectedChainId' # selectedChainId)
          => \A l \in Listeners :
               received'[l] = IF l \in eventListenersRef["chainChanged"]
                              THEN HexChainId(selectedChainId')
                              ELSE received[l]
     /\ (selectedChainId' = selectedChainId) => received' = received]_vars

\* Both listeners have received "0x2105" after a change to chain 8453 and
\* L1 had received another chain before.
C7_Witness ==
  /\ selectedChainId = 8453
  /\ eventListenersRef["chainChanged"] = {"L1"}
  /\ received["L1"] = <<"0", "x", "2", "1", "0", "5">>
  /\ received["L2"] = <<"0", "x", "1">>

\* C8: a disconnect() that completes has invoked logout first when the client
\* exposes one and leaves both references empty; the next recomputation with
\* a wallet constructs a handle that is none of the handles constructed
\* before and returns it.
C8_DisconnectThenFresh ==
  [][/\ (lastCall'.op = "disconnect" /\ lastCall'.ok)
          => (/\ stableProviderRef' = 0
              /\ providerStateRef' = NoSnapshot
              /\ (paraClient = "client") => (logoutPending /\ ~logoutPending'))
     /\ (lastCall'.op = "logout") => (paraClient = "client" /\ UNCHANGED <<stableProviderRef, providerStateRef>>)
     /\ (stableProviderRef = 0 /\ lastCall'.op = "sdkUpdate" /\ walletState' # NoWallet)
          => (/\ walletState'.provider \notin 1..Len(handles)
              /\ walletState'.provider = Len(handles')
              /\ stableProviderRef' = walletState'.provider)]_vars

\* After a disconnect through logout the reconnect has returned handle 2.
C8_Witness ==
  /\ paraClient = "client"
  /\ Len(handles) = 2
  /\ walletState.provider = 2
  /\ walletState.address # handles[1].address

\* ------------------------------------------------------------------------
\* C11, C12, C18: signatures, the signer guard and the RPC endpoint
\* ------------------------------------------------------------------------

\* The value of two hex digits, upper or lower case.
ByteValue(t) ==
  16 * ((CHOOSE i \in 1..16 : Digits[i] = t[1] \/ UpperDigits[i] = t[1]) - 1)
  + ((CHOOSE i \in 1..16 : Digits[i] = t[2] \/ UpperDigits[i] = t[2]) - 1)

\* The signature the claim expects for a raw signature: everything before
\* the last byte kept, the last byte v lifted by 27 when it is below 27.
ExpectedSignature(raw) ==
  LET n == Len(raw)
      v == ByteValue(SubSeq(raw, n - 1, n))
  IN  IF v >= 27 THEN raw
      ELSE SubSeq(raw, 1, n - 2) \o HexByte(v + 27)

\* C11: a personal_sign, eth_sign, eth_signTypedData or eth_signTypedData_v4
\* request that is served returns the signer's raw signature with its last
\* byte v replaced by v + 27 (two lowercase hex digits) when v < 27, and the
\* raw signature itself when v >= 27; the length and the bytes before v are
\* those of the raw signature.
C11_SignatureNormalized ==
  (lastCall.op = "request" /\ lastCall.method \in SigningMethods /\ lastCall.ok) =>
    /\ upstream.kind \in {"signMessage", "signTypedData"}
    /\ upstream.ok
    /\ lastCall.result = ExpectedSignature(upstream.reply)
    /\ Len(lastCall.result) = Len(upstream.reply)
    /\ SubSeq(lastCall.result, 1, Len(lastCall.result) - 2)
         = SubSeq(upstream.reply, 1, Len(upstream.reply) - 2)

\* A typed-data signature with v = 0x1a has been returned with v = 0x35.
C11_Witness ==
  /\ lastCall.op = "request"
  /\ lastCall.method = "eth_signTypedData_v4"
  /\ lastCall.ok
  /\ upstream.reply = <<"0", "x", "a", "b", "1", "a">>
  /\ lastCall.result = <<"0", "x", "a", "b", "3", "5">>

\* C12: a signing or sending request made while the snapshot holds no signer
\* (or there is no snapshot) is rejected with an error, calls neither the
\* signer nor the RPC endpoint and leaves the snapshot, the handle, the
\* selected chain, the listeners and the wallet as they were.
C12_NoSignerRejected ==
  [][(/\ lastCall'.op = "request"
      /\ lastCall'.method \in SignerMethods
      /\ providerStateRef.signer = NoSigner)
     => (/\ ~lastCall'.ok
         /\ lastCall'.result \in {<<"Para signer not available">>,
                                   <<"Provider state not initialized">>}
         /\ upstream'.kind = "none"
         /\ UNCHANGED <<providerStateRef, stableProviderRef, handles,
                        selectedChainId, eventListenersRef, received, storage,
                        walletState>>)]_vars

\* eth_sendTransaction has been rejected on the handle of a wallet whose
\* snapshot has no signer.
C12_Witness ==
  /\ lastCall.op = "request"
  /\ lastCall.method = "eth_sendTransaction"
  /\ ~lastCall.ok
  /\ lastCall.handle = walletState.provider
  /\ providerStateRef # NoSnapshot
  /\ providerStateRef.signer = NoSigner

\* The endpoint the claim expects: the entry of the active network's table,
\* the default endpoint when that table has none.
ExpectedRpcUrl(net, chainId) ==
  LET table == IF net = "mainnet" THEN MainnetRpcUrls ELSE TestnetRpcUrls
  IN  IF chainId \in DOMAIN table THEN table[chainId]
      ELSE "https://ethereum-rpc.publicnode.com"

\* C18 as stated: the endpoint of the snapshot is the active network's entry
\* for the snapshot's chain, the default endpoint for a chain that table does
\* not map, and a forwarded request is sent to that endpoint.
C18_ActiveTableOrDefault ==
  /\ providerStateRef # NoSnapshot =>
       providerStateRef.rpcUrl = ExpectedRpcUrl(networkId, providerStateRef.chainId)
  /\ (lastCall.op = "request" /\ upstream.kind = "send") =>
       upstream.target = ExpectedRpcUrl(networkId, providerStateRef.chainId)

\* ------------------------------------------------------------------------
\* C13 .. C16: normalisation and persistence of the selected chain
\* ------------------------------------------------------------------------

\* The chain id an argument of setChain stands for: a number is itself, a
\* text is read as hexadecimal (with or without 0x, upper or lower case).
HexReading(arg) == IF arg.isString THEN ParseInt(arg.text, 16) ELSE arg.num

\* C13: whether its argument is a number or a text, setChain succeeds exactly
\* when the hexadecimal reading c of a text (the number itself otherwise) is
\* an available chain, and then ends with selected chain c and persisted
\* value the decimal text of c: the number c and a hex text of c end in the
\* same state, and a decimal text is read as hexadecimal too.
C13_StringReadAsHex ==
  [][(lastCall'.op = "setChain")
     => (/\ lastCall'.ok = (HexReading(lastCall'.arg) \in AvailableSet)
         /\ lastCall'.ok =>
              (/\ selectedChainId' = HexReading(lastCall'.arg)
               /\ storage'[networkId] = ToStringRadix(HexReading(lastCall'.arg), 10)
               /\ upstream'.reply = storage'[networkId]))]_vars

\* On testnet setChain("0X66EEE") has selected chain 421614 and persisted
\* "421614".
C13_Witness ==
  /\ lastCall = Call("setChain", 0, "", StrArg(<<"0", "X", "6", "6", "E", "E", "E">>),
                     TRUE, <<"success">>)
  /\ selectedChainId = 421614
  /\ storage["testnet"] = <<"4", "2", "1", "6", "1", "4">>

\* The default chain the claim describes: the configured default (1329 when
\* none is configured) if it is in the available list, else the first entry
\* of the list if that is a chain id, else the configured default.
ExpectedDefault ==
  LET avail == AvailableChainIds(config, networkId)
      configured == IF config.default = <<>> THEN 1329 ELSE ParseInt(config.default, 10)
  IN  IF configured \in AvailableSet THEN configured
      ELSE IF Len(avail) > 0 /\ avail[1] > 0 THEN avail[1]
      ELSE configured

Other(net) == IF net = "mainnet" THEN "testnet" ELSE "mainnet"

\* C15 as stated: a fresh mount on the same network right after a successful
\* setChain to a chain c (the mount reading the storage without an error)
\* starts with selected chain c, and setChain never changes the value
\* persisted for the other network.
C15_RoundTripAnySuccess ==
  [][/\ (/\ lastCall.op = "setChain" /\ lastCall.ok /\ selectedChainId > 0
         /\ lastCall'.op = "mount" /\ networkId' = networkId /\ upstream'.ok)
          => selectedChainId' = selectedChainId
     /\ (lastCall'.op = "setChain")
          => storage'[Other(networkId)] = storage[Other(networkId)]]_vars

\* C15 (amended): a successful setChain to c whose storage write does not
\* throw persists the decimal text of c under the active network's key and
\* nothing else; no other step writes the storage; a fresh mount on network
\* N whose read does not throw starts with the available chain whose decimal
\* text is stored under N's key, so that a mount right after such a setChain
\* starts with c.
C15_RoundTrip ==
  [][/\ (/\ lastCall.op = "setChain" /\ lastCall.ok /\ upstream.ok
         /\ lastCall'.op = "mount" /\ networkId' = networkId /\ upstream'.ok)
          => selectedChainId' = selectedChainId
     /\ (lastCall'.op = "setChain" /\ lastCall'.ok /\ upstream'.ok)
          => storage' = [storage EXCEPT
                           ![networkId] = ToStringRadix(selectedChainId', 10)]
     /\ ~(lastCall'.op = "setChain" /\ lastCall'.ok /\ upstream'.ok)
          => storage' = storage
     /\ (lastCall'.op = "mount" /\ upstream'.ok)
          => \A c \in AvailableSet' :
               storage[networkId'] = ToStringRadix(c, 10) => selectedChainId' = c]_vars

\* On mainnet a mount has restored chain 8453, which a setChain persisted
\* over the stored text "97", and the testnet key still holds its text.
C15_Witness ==
  /\ lastCall.op = "mount"
  /\ networkId = "mainnet"
  /\ config.default = Dec(1)
  /\ selectedChainId = 8453
  /\ storage["mainnet"] = Dec(8453)
  /\ storage["testnet"] = <<"9", "7", "x">>

\* C16: a setChain of an available chain whose storage write throws still
\* succeeds, selects the chain, delivers chainChanged to the registered
\* listeners when the chain changes and leaves the storage as it was; a
\* mount whose storage read throws completes with the default chain.
C16_StorageFailuresAbsorbed ==
  [][/\ (lastCall'.op = "setChain" /\ HexReading(lastCall'.arg) \in AvailableSet)
          => (/\ lastCall'.ok
              /\ selectedChainId' = HexReading(lastCall'.arg)
              /\ upstream'.kind = "setItem"
              /\ ~upstream'.ok => storage' = storage
              /\ (selectedChainId' # selectedChainId)
                   => \A l \in eventListenersRef["chainChanged"] :
                        received'[l] = HexChainId(selectedChainId'))
     /\ (lastCall'.op = "mount" /\ ~upstream'.ok)
          => (/\ lastCall'.ok
              /\ selectedChainId' = ExpectedDefault')]_vars

\* A setChain whose write threw has selected 8453 on mainnet and delivered
\* "0x2105" to L1 while the storage still holds another text.
C16_Witness ==
  /\ lastCall.op = "setChain" /\ lastCall.ok
  /\ upstream.kind = "setItem" /\ ~upstream.ok
  /\ selectedChainId = 8453
  /\ received["L1"] = <<"0", "x", "2", "1", "0", "5">>
  /\ storage[networkId] # Dec(8453)

\* ------------------------------------------------------------------------
\* C17: the persisted network selection
\* ------------------------------------------------------------------------

\* C17 as stated: getNetworkId never throws and returns mainnet or testnet,
\* whatever is stored under orderly_network_id and whether or not the read
\* throws; without a disable flag deciding it, anything but a stored
\* "testnet" yields mainnet.
C17_AlwaysValidNetwork ==
  lastCall.op = "getNetworkId" =>
    /\ lastCall.ok
    /\ lastCall.result \in {<<"mainnet">>, <<"testnet">>}
    /\ (env.disableMainnet = env.disableTestnet
        /\ env.item # [present |-> TRUE, value |-> "testnet"])
         => lastCall.result = <<"mainnet">>

\* ------------------------------------------------------------------------
\* C19, C20: disconnect
\* ------------------------------------------------------------------------

\* C19 as stated: once disconnect() has discarded the handles constructed so
\* far, no listener is invoked until a new handle exists, and the
\* recomputation that constructs a handle after a disconnect leaves it with
\* an empty listener registry.
C19_ListenersScopedToHandle ==
  [][/\ (stableProviderRef = 0 /\ Len(handles) > 0) => received' = received
     /\ (Len(handles) > 0 /\ Len(handles') > Len(handles))
          => eventListenersRef' = [e \in EventNames |-> {}]]_vars

\* C20: a disconnect() whose logout rejects rejects with that error; logout
\* was invoked when disconnect() was called and is not invoked again; the
\* handle reference, the snapshot, the handles and the wallet are the same
\* before and after the call and before and after its rejection.
C20_LogoutFailurePropagated ==
  [][/\ (lastCall'.op = "disconnect" /\ ~lastCall'.ok)
          => (/\ logoutPending /\ ~logoutPending'
              /\ lastCall'.result = <<"logout failed">>
              /\ upstream'.kind = "none"
              /\ UNCHANGED <<stableProviderRef, providerStateRef, handles,
                             walletState, eventListenersRef, selectedChainId>>)
     /\ (lastCall'.op = "logout")
          => (/\ ~logoutPending /\ logoutPending'
              /\ upstream'.kind = "logout"
              /\ UNCHANGED <<stableProviderRef, providerStateRef, handles,
                             walletState>>)
     /\ (upstream'.kind = "logout") => lastCall'.op = "logout"]_vars

\* A disconnect() has been rejected while a wallet with a signer was exposed:
\* the handle and the snapshot are still there.
C20_Witness ==
  /\ lastCall = Call("disconnect", 0, "", NoArg, FALSE, <<"logout failed">>)
  /\ stableProviderRef # 0
  /\ walletState.provider = stableProviderRef
  /\ providerStateRef.signer # NoSigner

\* ------------------------------------------------------------------------
\* C21, C22: setChain with an external wallet, connect
\* ------------------------------------------------------------------------

\* C21: with an external EVM wallet connected, setChain of an available chain
\* succeeds, selects the chain and writes its decimal text to localStorage
\* (stored whenever the write does not throw), the account is left as it is,
\* and connectedChain.id and the wallet's chain id do not move: they are the
\* chain id the external account reports, whatever chain is selected.
C21_ExternalChainKept ==
  [][(/\ lastCall'.op = "setChain"
      /\ account.evm.address # ""
      /\ HexReading(lastCall'.arg) \in AvailableSet)
       => (/\ lastCall'.ok
           /\ lastCall'.result = <<"success">>
           /\ selectedChainId' = HexReading(lastCall'.arg)
           /\ upstream'.kind = "setItem"
           /\ upstream'.reply = Dec(selectedChainId')
           /\ upstream'.ok => storage'[networkId] = Dec(selectedChainId')
           /\ account' = account
           /\ connectedChain'.id = connectedChain.id
           /\ walletState'.chainId = walletState.chainId
           /\ (account.evm.chainId # 0)
                => (/\ connectedChain'.id = ChainNum(account.evm.chainId)
                    /\ walletState'.chainId = ChainNum(account.evm.chainId)))]_vars

\* An external wallet on chain 8453 after a successful setChain(1).
C21_Witness ==
  /\ lastCall.op = "setChain"
  /\ lastCall.ok
  /\ account.evm.address = "0xA"
  /\ account.evm.chainId = 8453
  /\ selectedChainId = 1
  /\ storage[networkId] = Dec(1)
  /\ connectedChain.id = ChainNum(8453)
  /\ walletState.chainId = ChainNum(8453)

\* C22: connect() calls openModal once and returns the empty list, or
\* rethrows openModal's error; either way the connecting state is false once
\* it has returned, and the wallet state, the selected chain, the handle, the
\* snapshot and the storage are what they were.
C22_ConnectOpensModal ==
  [][(lastCall'.op = "connect")
       => (/\ upstream'.kind = "openModal"
           /\ lastCall'.ok = upstream'.ok
           /\ lastCall'.ok => lastCall'.result = <<>>
           /\ ~lastCall'.ok => lastCall'.result = <<"openModal failed">>
           /\ connecting' = FALSE
           /\ UNCHANGED <<walletState, connectedChain, namespace, selectedChainId,
                          stableProviderRef, handles, providerStateRef, storage>>)]_vars

\* A connect() whose openModal threw, made while a wallet was connected.
C22_Witness ==
  /\ lastCall.op = "connect"
  /\ ~lastCall.ok
  /\ upstream.kind = "openModal"
  /\ ~connecting
  /\ walletState # NoWallet

\* ------------------------------------------------------------------------
\* C23: the mounted connector
\* ------------------------------------------------------------------------

\* The connector the selection stands for: its own for the three provider
\* ids, the direct-wallet connector for every other id.
ExpectedConnector(id) ==
  IF id \in {"privy", "web3-onboard", "para"} THEN id ELSE "web3-onboard"

RequestEnds == pending.active /\ lastCall'.op = "request"

\* C24: an eth_sendTransaction request resolves only in the step in which
\* tx.wait() succeeds, which is awaited only after sendTransaction has
\* succeeded, and its result is the hash of the receipt; it is rejected in
\* the step in which sendTransaction or tx.wait() fails, with that error,
\* after one call of each at most.
C24_SubmitThenConfirm ==
  [][/\ (RequestEnds /\ pending.method = "eth_sendTransaction")
          => (/\ pending' = NoPending
              /\ lastCall'.ok = upstream'.ok
              /\ lastCall'.result = upstream'.reply
              /\ (lastCall'.ok) => (upstream'.kind = "wait" /\ pending.calls = 2)
              /\ (~lastCall'.ok)
                   => (\/ upstream'.kind = "sendTransaction" /\ pending.calls = 1
                       \/ upstream'.kind = "wait" /\ pending.calls = 2))
     /\ (pending' # pending /\ pending'.active /\ pending'.awaiting = "wait")
          => (/\ pending.active
              /\ pending.awaiting = "sendTransaction"
              /\ pending.calls = 1
              /\ upstream'.kind = "sendTransaction"
              /\ upstream'.ok
              /\ pending'.calls = 2)
     /\ (pending' # pending /\ pending'.active
           /\ pending'.method = "eth_sendTransaction"
           /\ pending'.awaiting # "wait")
          => (~pending.active /\ pending'.awaiting = "sendTransaction"
              /\ pending'.calls = 1)]_vars

\* An eth_sendTransaction request has resolved with the hash of the receipt.
C24_Witness ==
  /\ lastCall.op = "request"
  /\ lastCall.method = "eth_sendTransaction"
  /\ lastCall.ok
  /\ lastCall.result = <<"0xhash">>
  /\ upstream.kind = "wait"
  /\ ~pending.active

\* C25 as stated: a request of the default branch ends after exactly one
\* upstream call, the send of its method and parameters to the RPC client
\* of the snapshot it started with, and returns its result or error.
C25_ForwardedOnce ==
  [][(RequestEnds /\ pending.method \in ForwardedMethods)
       => (/\ pending.calls = 1
           /\ upstream'.kind = "send"
           /\ upstream'.target = pending.started.rpcUrl
           /\ pending.sent = [method |-> pending.method,
                              params |-> IF pending.params = "absent"
                                         THEN "empty" ELSE pending.params]
           /\ lastCall'.ok = upstream'.ok
           /\ lastCall'.result = upstream'.reply)]_vars

\* C27: whatever happens to providerStateRef while a request is suspended,
\* the signer, the RPC URL and the chain id it goes on with are those of the
\* snapshot it read when it started, every call it awaits goes to the
\* signer or the RPC URL of that snapshot, and the signer of that snapshot
\* was constructed for its chain id.
C27_OneSnapshotPerRequest ==
  /\ [](pending.active
         => (/\ pending.started # NoSnapshot
             /\ pending.signer = pending.started.signer
             /\ pending.rpcUrl = pending.started.rpcUrl
             /\ pending.chainId = pending.started.chainId
             /\ pending.signer.chainId = pending.chainId
             /\ pending.target = IF pending.awaiting \in SignerCalls
                                 THEN pending.started.signer.rpcUrl
                                 ELSE pending.started.rpcUrl))
  /\ [][/\ (~pending.active /\ pending'.active)
             => pending'.started = providerStateRef
        /\ (pending.active /\ pending'.active)
             => pending'.started = pending.started
        /\ (pending.active /\ lastCall'.op \in {"request", "requestResumed"})
             => upstream'.target = IF upstream'.kind \in SignerCalls
                                   THEN pending.started.signer.rpcUrl
                                   ELSE pending.started.rpcUrl]_vars

\* An eth_call has gone on to its send after the snapshot it started with
\* was replaced by one for another chain.
C27_Witness ==
  /\ pending.active
  /\ pending.awaiting = "send"
  /\ pending.calls = 2
  /\ lastCall.op = "requestResumed"
  /\ providerStateRef # NoSnapshot
  /\ providerStateRef.chainId # pending.started.chainId
  /\ pending.target = pending.started.rpcUrl

\* ------------------------------------------------------------------------
\* C26, C30: registrations and the events delivered
\* ------------------------------------------------------------------------

\* The event name and the listener of the on / removeListener call.
CalledEvent == lastCall'.method
CalledListener == lastCall'.result[1]

\* C26: on() adds the listener to the listeners of its event name and
\* changes nothing when it is among them already; removeListener() takes it
\* away and changes nothing when it is not among them; neither invokes a
\* listener. A change of the selected chain invokes every listener of
\* chainChanged exactly once and no other listener, so that a listener
\* registered twice is invoked once and a removed one not at all.
C26_SetLikeRegistration ==
  [][/\ (lastCall'.op = "on")
          => (/\ eventListenersRef' =
                   [eventListenersRef EXCEPT
                      ![CalledEvent] = @ \cup {CalledListener}]
              /\ (CalledListener \in eventListenersRef[CalledEvent])
                   => eventListenersRef' = eventListenersRef
              /\ invoked' = NoInvocations)
     /\ (lastCall'.op = "removeListener")
          => (/\ CalledListener \notin eventListenersRef'[CalledEvent]
              /\ eventListenersRef' =
                   [eventListenersRef EXCEPT
                      ![CalledEvent] = @ \ {CalledListener}]
              /\ (CalledListener \notin eventListenersRef[CalledEvent])
                   => eventListenersRef' = eventListenersRef
              /\ invoked' = NoInvocations)
     /\ \A l \in Listeners :
          /\ invoked'[l] = IF /\ selectedChainId' # selectedChainId
                              /\ l \in eventListenersRef["chainChanged"]
                           THEN 1 ELSE 0
          /\ (invoked'[l] = 0) => received'[l] = received[l]]_vars

\* A change of chain has been delivered to L1 and not to L2, which had been
\* invoked before and has been removed since.
C26_Witness ==
  /\ lastCall.op = "setChain"
  /\ invoked["L1"] = 1
  /\ invoked["L2"] = 0
  /\ received["L2"] # <<>>
  /\ received["L2"] # received["L1"]
  /\ eventListenersRef["chainChanged"] = {"L1"}

\* C30 as stated: the first commit of a mount invokes no listener, a
\* setChain that leaves the selected chain as it is invokes none, and a
\* listener is never invoked with the payload of its previous invocation.
C30_OnlyRealChanges ==
  [][/\ (lastCall'.op = "render") => invoked' = NoInvocations
     /\ (lastCall'.op = "setChain" /\ selectedChainId' = selectedChainId)
          => invoked' = NoInvocations
     /\ \A l \in Listeners :
          (invoked'[l] > 0) => received'[l] # received[l]]_vars

\* ------------------------------------------------------------------------
\* C28, C29: after disconnect
\* ------------------------------------------------------------------------

\* C28 as stated: a request on a handle that is not the handle of
\* stableProviderRef, that is on one that a disconnect() has discarded,
\* fails.
C28_DiscardedHandleDead ==
  (lastCall.op = "request" /\ lastCall.handle # stableProviderRef)
    => ~lastCall.ok

\* C29 as stated, for the mounts in which a handle has been constructed
\* after a disconnect() resolved (only disconnect() empties the handle
\* reference, and a handle is constructed only while it is empty, so a
\* second handle tells that a disconnect() has resolved): whenever the SDK
\* reports no connected account, the handle reference and the snapshot
\* reference are both null.
C29_NothingReachableAfterLogout ==
  (Len(handles) >= 2 /\ account = NoAccount)
    => (stableProviderRef = 0 /\ providerStateRef = NoSnapshot)

\* ------------------------------------------------------------------------
\* C31: a chainChanged listener that asks the handle for the chain
\* ------------------------------------------------------------------------

InitNotify == Init /\ paraClient = "client"

\* The adapter under SDK updates of every kind, setChain and a listener
\* registered on chainChanged.
NextNotify ==
  \/ \E in \in SdkInputs : SdkUpdate(in)
  \/ \E arg \in MountChainArgs : SetChain(arg, FALSE)
  \/ \E h \in 1..MaxHandles : On(h, "chainChanged", "L1")

SpecNotify == InitNotify /\ [][NextNotify]_vars

\* C31 as stated: when the chainChanged effect invokes a listener while a
\* wallet is present, request({method: 'eth_chainId'}) on the wallet's
\* handle, issued from inside the listener (the render has stored its
\* snapshot before the effect runs), resolves to the payload the listener
\* has been called with.
C31_EventMatchesChainId ==
  [][\A l \in Listeners :
       (invoked'[l] > 0 /\ walletState' # NoWallet)
         => RequestOutcome(stableProviderRef', "eth_chainId",
                           providerStateRef', handles')
              = [ok |-> TRUE, result |-> received'[l]]]_vars

\* ------------------------------------------------------------------------
\* C32, C33: the published context and the signer
\* ------------------------------------------------------------------------

\* C32 as stated: once the adapter has rendered, wallet is non-null exactly
\* when connectedChain and namespace are non-null, and then the wallet's
\* chain id is connectedChain.id and the wallet's namespace is both
\* namespace and connectedChain.namespace.
C32_ContextSelfConsistent ==
  (lastCall.op = "render")
    => /\ (walletState # NoWallet) <=> (connectedChain # NoChain /\ namespace # "")
       /\ (walletState # NoWallet)
            => /\ walletState.chainId = connectedChain.id
               /\ walletState.namespace = namespace
               /\ walletState.namespace = connectedChain.namespace

\* C33 as stated: once the adapter has rendered, a snapshot with a signer
\* (the signer signs with the embedded Para wallet) goes with a wallet
\* state whose address, and whose eth_accounts result, is the address of
\* the embedded EVM wallet.
C33_SignerSignsForReportedAddress ==
  (lastCall.op = "render" /\ providerStateRef.signer # NoSigner)
    => /\ walletState.address = FindEvmWallet(account.embedded.wallets).address
       /\ RequestOutcome(stableProviderRef, "eth_accounts", providerStateRef, handles)
            = [ok |-> TRUE,
               result |-> <<FindEvmWallet(account.embedded.wallets).address>>]

\* ------------------------------------------------------------------------
\* C34: the selected chain and the available set
\* ------------------------------------------------------------------------

\* Chain lists as deployments write them: the standard lists, and a
\* mainnet list with a leading comma (",8453"), whose first item is empty.
MembershipConfigs ==
  { [mainnet |-> <<Dec(1), Dec(8453)>>,
     testnet |-> <<Dec(421614), Dec(97)>>,
     default |-> Dec(1)],
    [mainnet |-> << <<>>, Dec(8453)>>,
     testnet |-> <<Dec(421614), Dec(97)>>,
     default |-> Dec(1)] }

InitMembership == InitStorageWith(MembershipConfigs)

SpecMembership == InitMembership /\ [][NextStorage]_vars

\* C34 as stated, the available set taken as the code computes it (an item
\* that is no number stays in it as NaN): on a network whose list names at
\* least one chain id, the selected chain is in the available set, at mount
\* and after every setChain, and a text written under the network's key is
\* the decimal text of a member of the set.
C34_SelectedStaysAvailable ==
  (AvailableSet \ {NaN} # {})
    => /\ selectedChainId \in AvailableSet
       /\ (upstream.kind = "setItem")
            => \E c \in AvailableSet : upstream.reply = ToStringRadix(c, 10)

\* ------------------------------------------------------------------------
\* C35: a chainChanged listener that throws
\* ------------------------------------------------------------------------

\* C35: when the chainChanged effect emits while a listener that throws is
\* registered, every registered listener is invoked once with the hex text
\* of the new chain, the effect sets prevChainIdRef to the new chain, and a
\* setChain that has caused the emission has returned success.
C35_ThrowingListenerIsolated ==
  [][(/\ lastCall'.op \in {"setChain", "render"}
      /\ selectedChainId' # prevChainIdRef
      /\ eventListenersRef'["chainChanged"] \cap ThrowingListeners # {})
       => /\ \A l \in eventListenersRef'["chainChanged"] :
               /\ invoked'[l] = 1
               /\ received'[l] = HexChainId(selectedChainId')
          /\ prevChainIdRef' = selectedChainId'
          /\ (lastCall'.op = "setChain")
               => (lastCall'.ok /\ lastCall'.result = <<"success">>)]_vars

\* A setChain has emitted to a listener that throws and to one that does
\* not.
C35_Witness ==
  /\ lastCall.op = "setChain" /\ lastCall.ok
  /\ eventListenersRef["chainChanged"] = {"L1", "L2"}
  /\ "L2" \in ThrowingListeners
  /\ invoked = [l \in Listeners |-> 1]
  /\ received = [l \in Listeners |-> HexChainId(selectedChainId)]

\* ------------------------------------------------------------------------
\* C36: onChainChanged and the reload
\* ------------------------------------------------------------------------

\* The condition of onChainChanged: a testnet chain while the current
\* network is mainnet, or the reverse.
Mismatch(isTestnet, current) ==
  \/ isTestnet /\ current = "mainnet"
  \/ ~isTestnet /\ current = "testnet"

NetworkOf(isTestnet) == IF isTestnet THEN "testnet" ELSE "mainnet"

\* onChainChanged(_chainId, {isTestnet}): getNetworkId(), and on a mismatch
\* setNetworkId(newNetworkId) and a timer that reloads the page. A storage
\* call that throws ends the handler. lastCall.method names the network of
\* the event's chain, lastCall.result the network id written ahead of a
\* pending reload.
OnChainChanged(isTestnet) ==
  LET current == GetNetworkId(env)
      switches == current.ok /\ Mismatch(isTestnet, current.value)
      written == switches /\ env.hasWindow /\ ~env.storageThrows
  IN  /\ env.hasWindow
      /\ env' = IF written
                THEN [env EXCEPT !.item = [present |-> TRUE,
                                           value |-> NetworkOf(isTestnet)]]
                ELSE env
      /\ upstream' = IF switches
                     THEN Upstream("setItem", "orderly_network_id", written, <<>>)
                     ELSE NoUpstream
      /\ lastCall' = Call("onChainChanged", 0, NetworkOf(isTestnet), NoArg,
                          current.ok /\ (switches => written),
                          IF written THEN <<NetworkOf(isTestnet)>> ELSE <<>>)
      /\ invoked' = NoInvocations
      /\ UNCHANGED pending
      /\ UNCHANGED shellVars
      /\ UNCHANGED <<config, networkId, paraClient, storage, account, walletQuery,
                     selectedChainId, prevChainIdRef, eventListenersRef,
                     providerStateRef, stableProviderRef, handles, walletState,
                     connectedChain, namespace, settingChain, connecting,
                     logoutPending, received>>

\* The timer of onChainChanged fires: window.location.reload(), and the new
\* page renders OrderlyProvider with getNetworkId().
Reload ==
  /\ lastCall.op = "onChainChanged"
  /\ lastCall.result # <<>>
  /\ networkId' = IF GetNetworkId(env).ok THEN GetNetworkId(env).value ELSE networkId
  /\ upstream' = Upstream("getItem", "orderly_network_id", GetNetworkId(env).ok, <<>>)
  /\ lastCall' = Call("reload", 0, lastCall.method, NoArg, GetNetworkId(env).ok,
                      lastCall.result)
  /\ invoked' = NoInvocations
  /\ UNCHANGED pending
  /\ UNCHANGED shellVars
  /\ UNCHANGED <<env, config, paraClient, storage, account, walletQuery,
                 selectedChainId, prevChainIdRef, eventListenersRef,
                 providerStateRef, stableProviderRef, handles, walletState,
                 connectedChain, namespace, settingChain, connecting,
                 logoutPending, received>>

\* The page in a browser, in any environment.
InitReload == InitNetwork /\ env.hasWindow

NextReload ==
  \/ ReadNetworkId
  \/ \E isTestnet \in BOOLEAN : OnChainChanged(isTestnet)
  \/ Reload

SpecReload == InitReload /\ [][NextReload]_vars

\* C36 as stated: onChainChanged writes and reloads only on a mismatch, it
\* then writes the network of the event's chain, and once the page has
\* reloaded getNetworkId() returns the network that was written, so that the
\* same event finds no mismatch any more.
C36_NoReloadLoop ==
  /\ (lastCall.op = "onChainChanged" /\ lastCall.result # <<>>)
       => lastCall.result = <<lastCall.method>>
  /\ (lastCall.op = "reload")
       => /\ GetNetworkId(env) = [ok |-> TRUE, value |-> lastCall.result[1]]
          /\ ~Mismatch(lastCall.method = "testnet", GetNetworkId(env).value)

\* ------------------------------------------------------------------------
\* C37: the timers of tryAutoClick
\* ------------------------------------------------------------------------

\* C37: a selection closes the selector, sets the selected provider and
\* the flag and starts tryAutoClick(0); tryAutoClick looks for the button
\* at most maxAttempts times and clicks at most once, no timer of it is
\* pending after the click or after it has given up, no selection is made
\* while a timer is pending, and, the timers firing, the timers come to an
\* end and the flag of a tree that is still mounted is reset.
C37_AutoClickTerminates ==
  /\ [](/\ autoClick.attempts + autoClick.clicks <= maxAttempts
        /\ autoClick.clicks <= 1
        /\ (autoClick.stage = "scheduled") => autoClick.clicks = 0
        /\ showProviderSelector => autoClick.stage = "idle")
  /\ [][/\ (lastCall'.op = "select")
             => /\ ~showProviderSelector'
                /\ selectedProvider' = lastCall'.method
                /\ isAutoClicking'
                /\ autoClick' = [stage |-> "scheduled", attempts |-> 0, clicks |-> 0]
        /\ (autoClick.stage = "idle" /\ lastCall'.op # "select")
             => autoClick' = autoClick
        /\ (autoClick.stage = "scheduled" /\ autoClick'.stage = "idle")
             => autoClick.attempts = maxAttempts]_vars
  /\ (autoClick.stage # "idle") ~> (autoClick.stage = "idle")
  /\ (isAutoClicking /\ mountedConnector.status # "crashed") ~> ~isAutoClicking

\* tryAutoClick has given up after maxAttempts looks and has reset the flag.
C37_Witness ==
  /\ lastCall.op = "tryAutoClick"
  /\ autoClick = [stage |-> "idle", attempts |-> maxAttempts, clicks |-> 0]
  /\ ~isAutoClicking
  /\ mountedConnector.status # "crashed"

\* ------------------------------------------------------------------------
\* C38: the Gate Wallet module of Web3-Onboard
\* ------------------------------------------------------------------------

\* isValidProvider(obj): an object with a request function.
IsValidProvider(obj) == obj.present /\ obj.request

\* null of getGateWalletProvider, and the provider found at an injection
\* point (index: its place in window.ethereum.providers, else 0).
NoProvider == [found |-> FALSE, at |-> "", index |-> 0]

ProviderAt(at, i) == [found |-> TRUE, at |-> at, index |-> i]

\* The flagged valid entries of window.ethereum.providers.
GateEntries(w) ==
  {i \in 1..Len(w.providers) :
     w.providers[i].isGateWallet /\ IsValidProvider(w.providers[i])}

\* A resolution that looks at window.ethereum before window.gatewallet.
GetGateWalletProviderEthereumFirst(e) ==
  LET w == e.injected
  IN  IF ~e.hasWindow THEN NoProvider
      ELSE IF w.ethereum.present /\ w.ethereum.isGateWallet /\ IsValidProvider(w.ethereum)
        THEN ProviderAt("window.ethereum", 0)
      ELSE IF w.gatewallet.present /\ IsValidProvider(w.gatewallet)
        THEN ProviderAt("window.gatewallet", 0)
      ELSE IF w.gatewallet.present /\ w.nested.present /\ IsValidProvider(w.nested)
        THEN ProviderAt("window.gatewallet.ethereum", 0)
      ELSE IF w.ethereum.present /\ GateEntries(w) # {}
        THEN ProviderAt("window.ethereum.providers",
                        CHOOSE i \in GateEntries(w) : \A j \in GateEntries(w) : i <= j)
      ELSE NoProvider

\* getGateWalletProvider().
GetGateWalletProvider(e) ==
  LET w == e.injected
  IN  IF ~e.hasWindow THEN NoProvider
      ELSE IF w.gatewallet.present /\ IsValidProvider(w.gatewallet)
        THEN ProviderAt("window.gatewallet", 0)
      ELSE IF w.gatewallet.present /\ w.nested.present /\ IsValidProvider(w.nested)
        THEN ProviderAt("window.gatewallet.ethereum", 0)
      ELSE IF w.ethereum.present /\ w.ethereum.isGateWallet /\ IsValidProvider(w.ethereum)
        THEN ProviderAt("window.ethereum", 0)
      ELSE IF w.ethereum.present /\ GateEntries(w) # {}
        THEN ProviderAt("window.ethereum.providers",
                        CHOOSE i \in GateEntries(w) : \A j \in GateEntries(w) : i <= j)
      ELSE NoProvider

\* isGateWalletInstalled().
IsGateWalletInstalled(e) ==
  /\ e.hasWindow
  /\ \/ e.injected.gatewallet.present
     \/ e.injected.ethereum.present /\ e.injected.ethereum.isGateWallet
     \/ /\ e.injected.ethereum.present
        /\ \E i \in 1..Len(e.injected.providers) : e.injected.providers[i].isGateWallet

GATE_WALLET_INSTALL_URL == "https://www.gate.io/web3"

\* getInterface() of the wallet module; syncFails: the provider's
\* eth_chainId request rejects or throws.
GetInterface(syncFails) ==
  LET provider == GetGateWalletProvider(env)
  IN  /\ env.hasWindow
      /\ syncFails => (IsGateWalletInstalled(env) /\ provider.found)
      /\ IF ~IsGateWalletInstalled(env)
         THEN /\ upstream' = Upstream("window.open", GATE_WALLET_INSTALL_URL, TRUE, <<>>)
              /\ lastCall' = Call("getInterface", 0, "", NoArg, FALSE,
                                  <<"Please install Gate Wallet extension to continue">>)
         ELSE IF ~provider.found
         THEN /\ upstream' = Upstream("window.open", GATE_WALLET_INSTALL_URL, TRUE, <<>>)
              /\ lastCall' = Call("getInterface", 0, "", NoArg, FALSE,
                                  <<"Gate Wallet provider not found. Please install or refresh the page.">>)
         ELSE /\ upstream' = Upstream("eth_chainId", provider.at, ~syncFails, <<>>)
              /\ lastCall' = Call("getInterface", provider.index, provider.at, NoArg,
                                  TRUE, <<provider.at>>)
      /\ UNCHANGED <<env, config, networkId, paraClient, storage, account, walletQuery,
                     selectedChainId, prevChainIdRef, eventListenersRef,
                     providerStateRef, stableProviderRef, handles, walletState,
                     connectedChain, namespace, settingChain, connecting,
                     logoutPending, received, invoked, pending>>
      /\ UNCHANGED shellVars

\* gateWallet() where there is no window: the wallet module is () => null.
GateWallet ==
  /\ ~env.hasWindow
  /\ lastCall.op = "load"
  /\ upstream' = NoUpstream
  /\ lastCall' = Call("gateWallet", 0, "", NoArg, TRUE, <<>>)
  /\ UNCHANGED <<env, config, networkId, paraClient, storage, account, walletQuery,
                 selectedChainId, prevChainIdRef, eventListenersRef,
                 providerStateRef, stableProviderRef, handles, walletState,
                 connectedChain, namespace, settingChain, connecting,
                 logoutPending, received, invoked, pending>>
  /\ UNCHANGED shellVars

\* The lists found under window.ethereum.providers.
ProviderLists ==
  { <<>>, <<Injected(TRUE, FALSE)>>, <<Injected(TRUE, TRUE)>>,
    <<Injected(FALSE, TRUE)>>,
    <<Injected(FALSE, TRUE), Injected(TRUE, TRUE)>>,
    <<Injected(TRUE, FALSE), Injected(TRUE, TRUE)>> }

\* What wallet extensions may have injected into the page.
Injections ==
  { [gatewallet |-> g, nested |-> n, ethereum |-> eth, providers |-> ps] :
      g \in {Absent, Injected(FALSE, FALSE), Injected(TRUE, FALSE)},
      n \in {Absent, Injected(FALSE, FALSE), Injected(TRUE, FALSE)},
      eth \in {Absent} \cup {Injected(r, f) : r \in BOOLEAN, f \in BOOLEAN},
      ps \in ProviderLists }

\* A loaded page; the adapter is not mounted.
InitGate ==
  /\ \E hasWindow \in BOOLEAN, w \in Injections :
       /\ ~w.gatewallet.present => ~w.nested.present
       /\ ~w.ethereum.present => w.providers = <<>>
       /\ ~hasWindow => w = NoInjection
       /\ env = [EnvOf("mainnet") EXCEPT !.hasWindow = hasWindow, !.injected = w]
  /\ config \in Configs
  /\ networkId = "mainnet"
  /\ paraClient = "none"
  /\ storage = [n \in Networks |-> <<>>]
  /\ account = NoAccount
  /\ walletQuery = NoWalletData
  /\ selectedChainId = 0
  /\ prevChainIdRef = 0
  /\ eventListenersRef = [e \in EventNames |-> {}]
  /\ providerStateRef = NoSnapshot
  /\ stableProviderRef = 0
  /\ handles = <<>>
  /\ walletState = NoWallet
  /\ connectedChain = NoChain
  /\ namespace = ""
  /\ settingChain = FALSE
  /\ connecting = FALSE
  /\ logoutPending = FALSE
  /\ received = [l \in Listeners |-> <<>>]
  /\ lastCall = Call("load", 0, "", NoArg, TRUE, <<>>)
  /\ invoked = NoInvocations
  /\ pending = NoPending
  /\ ParaSelected
  /\ upstream = NoUpstream

NextGate ==
  \/ \E syncFails \in BOOLEAN : GetInterface(syncFails)
  \/ GateWallet

SpecGate == InitGate /\ [][NextGate]_vars

\* The injection points in the documented order, each with the object that
\* counts as a Gate Wallet candidate there (Absent when there is none).
GateCandidates(e) ==
  LET w == e.injected
  IN  << [at |-> "window.gatewallet", index |-> 0, obj |-> w.gatewallet],
         [at |-> "window.gatewallet.ethereum", index |-> 0,
          obj |-> IF w.gatewallet.present THEN w.nested ELSE Absent],
         [at |-> "window.ethereum", index |-> 0,
          obj |-> IF w.ethereum.isGateWallet THEN w.ethereum ELSE Absent] >>
      \o [i \in 1..Len(w.providers) |->
            [at |-> "window.ethereum.providers", index |-> i,
             obj |-> IF w.ethereum.present /\ w.providers[i].isGateWallet
                     THEN w.providers[i] ELSE Absent]]

\* The places of the candidates that have a request function.
Accepted(e) ==
  {k \in 1..Len(GateCandidates(e)) :
     GateCandidates(e)[k].obj.present /\ GateCandidates(e)[k].obj.request}

FirstAccepted(e) ==
  GateCandidates(e)[CHOOSE k \in Accepted(e) : \A j \in Accepted(e) : k <= j]

\* C38 as stated: getInterface() returns the first candidate with a request
\* function, in the documented order, whenever isGateWalletInstalled() is
\* true, and opens the install page and throws otherwise; a failing
\* eth_chainId request changes nothing of it.
C38_ReturnsProviderWhenInstalled ==
  (lastCall.op = "getInterface")
    => IF IsGateWalletInstalled(env)
       THEN /\ lastCall.ok
            /\ Accepted(env) # {}
            /\ lastCall.method = FirstAccepted(env).at
            /\ lastCall.handle = FirstAccepted(env).index
       ELSE /\ ~lastCall.ok
            /\ upstream = Upstream("window.open", GATE_WALLET_INSTALL_URL, TRUE, <<>>)

\* C38, amended: getInterface() returns the first candidate with a request
\* function, in the documented order, whenever there is one, whether its
\* eth_chainId request fails or not; it opens the install page and throws
\* when there is none, which is the case whenever isGateWalletInstalled()
\* is false and also when it is true while no candidate has a request
\* function.
C38_ReturnsFirstAccepted ==
  (lastCall.op = "getInterface")
    => /\ lastCall.ok <=> (Accepted(env) # {})
       /\ lastCall.ok
            => /\ lastCall.method = FirstAccepted(env).at
               /\ lastCall.handle = FirstAccepted(env).index
               /\ lastCall.result = <<FirstAccepted(env).at>>
               /\ upstream.kind = "eth_chainId"
               /\ upstream.target = FirstAccepted(env).at
       /\ (~lastCall.ok)
            => upstream = Upstream("window.open", GATE_WALLET_INSTALL_URL, TRUE, <<>>)
       /\ (~IsGateWalletInstalled(env)) => ~lastCall.ok

\* getInterface() has returned window.gatewallet.ethereum although its
\* eth_chainId request failed, with a window.gatewallet that has no request
\* function and a flagged window.ethereum that has one.
C38_Witness ==
  /\ lastCall.op = "getInterface" /\ lastCall.ok
  /\ lastCall.method = "window.gatewallet.ethereum"
  /\ env.injected.gatewallet = Injected(FALSE, FALSE)
  /\ env.injected.ethereum = Injected(TRUE, TRUE)
  /\ upstream.kind = "eth_chainId" /\ ~upstream.ok

====
